---- MODULE Spec2Model ----
(***************************************************************************)
(* Model of the playback queue of maym (src/src/queue.rs): the bounded     *)
(* History of played indices and the Queue that selects the next and the   *)
(* previous track, sequentially or shuffled.                               *)
(*                                                                         *)
(* Indices are 0-based as in the source; TLA+ sequences are 1-based, so    *)
(* the entry at source index i of a sequence s is s[i + 1].                *)
(* Option<usize> and Option<path> are integers with None == -1.            *)
(***************************************************************************)
EXTENDS Integers, Sequences, FiniteSets, TLC

\* ------------------------------------------------------------------------
\* bounds
\* ------------------------------------------------------------------------

\* largest number of tracks a modelled directory holds
MaxTracks == 3

\* random draws next_track_shuffle may consume in one behaviour
MaxPicks == 2

\* calls of History::push in one behaviour of the History specification
MaxPushes == 3

\* ------------------------------------------------------------------------
\* program constants
\* ------------------------------------------------------------------------

\* capacity of History::queue, ArrayVec<usize, 100>
HistoryCap == 100

\* Option::None
None == -1

\* Option::Some and Option::None of a record, as a sequence of at most one
Some(x) == << x >>
Nothing == << >>

\* Result::Ok and Result::Err of a call that builds a value (q), and
\* Result::unwrap of an Ok
Ok(x) == [ q |-> Some(x), result |-> "ok" ]
Err(e) == [ q |-> Nothing, result |-> e ]
Unwrap(r) == r.q[1]

\* ------------------------------------------------------------------------
\* the file system the queue reads: directory d holds d mp3 files
\* ------------------------------------------------------------------------

DirSizes == 0 .. MaxTracks

\* path of the directory with d tracks
DirPath(d) == 100 + d

\* path of the i-th (0-based) mp3 file of directory d
TrackPath(d, i) == 10 * d + i

DirPaths == { DirPath(d) : d \in DirSizes }

FilePaths == { TrackPath(d, i) : d \in DirSizes, i \in 0 .. MaxTracks - 1 } \cap
             UNION { { TrackPath(d, i) : i \in 0 .. d - 1 } : d \in DirSizes }

\* a path at which nothing exists
MissingPath == 99

\* a directory that exists and that the process may not read
LockedPath == 98

\* a directory that can be listed and not searched (mode r--) and holds an
\* mp3 file: read_dir and the walk succeed, the file cannot be stat-ed
SealedPath == 97

\* a directory of many mp3 files whose tags Track::cmp does not order
\* totally, so that the sort of the standard library panics
UnsortedPath == 96

\* a directory that holds one mp3 file, which does not decode
DamagedPath == 95
DamagedTrack == 90

\* Utf8Path::exists
Exists(p) ==
    p \in DirPaths \cup FilePaths
            \cup { LockedPath, SealedPath, UnsortedPath, DamagedPath, DamagedTrack }

\* Utf8Path::is_dir
IsDir(p) == p \in DirPaths \cup { LockedPath, SealedPath, UnsortedPath, DamagedPath }

\* the walk of Track::directory over a directory whose files can be read:
\* its mp3 files, in the order the sort leaves them in
WalkDir(p) ==
    IF p = DamagedPath THEN << DamagedTrack >>
    ELSE [ i \in 1 .. (p - 100) |-> TrackPath(p - 100, i - 1) ]

\* Track::directory: NotADirectory when path is not a directory, the error
\* of std::fs::read_dir when it cannot be read, a panic of the expect on
\* Track::new when a file it lists cannot be stat-ed, a panic of the sort
\* when it finds the order of the tags not total, else its sorted tracks;
\* a panic is carried as the result that names it
Track_directory(p) ==
    IF ~ IsDir(p) THEN Err("NotADirectory")
    ELSE IF p = LockedPath THEN Err("IoError")
    ELSE IF p = SealedPath THEN Err("expect panics")
    ELSE IF p = UnsortedPath THEN Err("sort panics")
    ELSE Ok(WalkDir(p))

\* Iterator::position: the first 0-based index of path in tracks, or None
Position(tracks, path) ==
    IF \E i \in 1 .. Len(tracks) : tracks[i] = path
    THEN (CHOOSE i \in 1 .. Len(tracks) :
            /\ tracks[i] = path
            /\ \A j \in 1 .. i - 1 : tracks[j] # path) - 1
    ELSE None

\* ------------------------------------------------------------------------
\* History
\* ------------------------------------------------------------------------

\* History::new
History_new == [ queue |-> << >>, index |-> 0 ]

\* ------------------------------------------------------------------------
\* the order of Tracks
\* ------------------------------------------------------------------------

\* the id3 tags Track::cmp reads; a string is a letter in lower or upper
\* case: 0 is "a", 1 is "A", 2 is "b", 3 is "B"
Tag(track, title, artist, album) ==
    [ track |-> track, title |-> title, artist |-> artist, album |-> album ]

\* Ord::cmp of two integers
U32_cmp(s, o) == IF s < o THEN "Less" ELSE IF s > o THEN "Greater" ELSE "Equal"

\* UniCase::cmp telling the cases apart
UniCase_cmp_exact(s, o) == U32_cmp(s, o)

\* UniCase::cmp: the strings are compared with their case folded
UniCase_cmp(s, o) == U32_cmp(s \div 2, o \div 2)

\* Option::zip
Zip(s, o) == IF s = -1 \/ o = -1 THEN << >> ELSE << << s, o >> >>

\* Option::map_or(Ordering::Equal, |(s, o)| s.cmp(&o)) of two track numbers
NumbersOrEqual(pair) == IF Len(pair) = 0 THEN "Equal" ELSE U32_cmp(pair[1][1], pair[1][2])

\* Option::map_or(Ordering::Equal, |(s, o)| s.cmp(&o)) of two UniCase strings
StringsOrEqual(pair) == IF Len(pair) = 0 THEN "Equal" ELSE UniCase_cmp(pair[1][1], pair[1][2])

\* Ordering::then_with
ThenWith(first, second) == IF first # "Equal" THEN first ELSE second

\* Ordering::reverse
Reverse(ordering) ==
    IF ordering = "Less" THEN "Greater" ELSE IF ordering = "Greater" THEN "Less" ELSE "Equal"

\* Track::cmp
Track_cmp(self, other) ==
    LET tracks == Zip(self.track, other.track)
        titles == Zip(self.title, other.title)
        artist == Zip(self.artist, other.artist)
        albums == Zip(self.album, other.album)
    IN  ThenWith(ThenWith(ThenWith(NumbersOrEqual(tracks), StringsOrEqual(titles)),
                          StringsOrEqual(artist)),
                 StringsOrEqual(albums))

\* no Tracks were compared
NoOrder == [ name |-> "none", tracks |-> << >>, ret |-> << >> ]

\* slice::rotate_left(1)
RotateLeft1(s) == IF Len(s) = 0 THEN s ELSE Tail(s) \o << Head(s) >>

\* ArrayVec::pop
Pop(s) == IF Len(s) = 0 THEN s ELSE SubSeq(s, 1, Len(s) - 1)

\* usize::saturating_sub
SaturatingSub(a, b) == IF a >= b THEN a - b ELSE 0

\* the debug assertion at the head of History::push
PushAssertion(h) == SaturatingSub(Len(h.queue), 1) = h.index

\* History::push without the check for a repeated last entry
History_push_dup(h, value) ==
    LET kept == IF Len(h.queue) = HistoryCap
                THEN Pop(RotateLeft1(h.queue))
                ELSE h.queue
        pushed == Append(kept, value)
    IN  [ queue |-> pushed, index |-> Len(pushed) - 1 ]

\* History::push without the eviction of the oldest entry
History_push_noevict(h, value) ==
    IF Len(h.queue) > 0 /\ h.queue[Len(h.queue)] = value
    THEN h
    ELSE [ queue |-> Append(h.queue, value), index |-> Len(h.queue) ]

\* History::push
History_push(h, value) ==
    IF Len(h.queue) > 0 /\ h.queue[Len(h.queue)] = value
    THEN h
    ELSE LET kept == IF Len(h.queue) = HistoryCap
                     THEN Pop(RotateLeft1(h.queue))
                     ELSE h.queue
             pushed == Append(kept, value)
         IN  [ queue |-> pushed, index |-> Len(pushed) - 1 ]

\* History::clear leaving the cursor where it was
History_clear_queue(h) == [ h EXCEPT !.queue = << >> ]

\* History::clear
History_clear(h) == [ queue |-> << >>, index |-> 0 ]

\* History::next returning the entry under the cursor it leaves
History_next_stale(h) ==
    IF h.index + 1 < Len(h.queue)
    THEN [ h |-> [ h EXCEPT !.index = h.index + 1 ], ret |-> h.queue[h.index + 1],
           panic |-> FALSE ]
    ELSE [ h |-> h, ret |-> None, panic |-> FALSE ]

\* History::next: the history after the call and the value returned
History_next(h) ==
    IF h.index + 1 < Len(h.queue)
    THEN [ h |-> [ h EXCEPT !.index = h.index + 1 ], ret |-> h.queue[h.index + 2],
           panic |-> FALSE ]
    ELSE [ h |-> h, ret |-> None, panic |-> FALSE ]

\* History::prev: the history after the call and the value returned;
\* self.queue[prev] panics when prev is not a stored position
History_prev(h) ==
    IF h.index = 0
    THEN [ h |-> h, ret |-> None, panic |-> FALSE ]
    ELSE IF h.index - 1 < Len(h.queue)
         THEN [ h |-> [ h EXCEPT !.index = h.index - 1 ], ret |-> h.queue[h.index],
                panic |-> FALSE ]
         ELSE [ h |-> [ h EXCEPT !.index = h.index - 1 ], ret |-> None,
                panic |-> TRUE ]

\* ------------------------------------------------------------------------
\* Queue: pure versions of the methods.  A method yields the queue after
\* the call (q), the tracks handed to Playable::replace (sent), the error
\* or "ok" (result) and, for next and last, the rule that chose (via).
\* ------------------------------------------------------------------------

Outcome(q, sent, result, via) ==
    [ q |-> q, sent |-> sent, result |-> result, via |-> via ]

\* Queue::with_state: the Queue, or the error or the panic of
\* Track::directory on a persisted queue path that exists
Queue_with_state(state) ==
    LET found  == state.queue # None /\ Exists(state.queue)
        read   == Track_directory(state.queue)
        tracks == IF found THEN Unwrap(read) ELSE << >>
        path   == IF found THEN state.queue ELSE None
        current == IF state.track # None THEN Position(tracks, state.track) ELSE None
        history == IF current # None THEN History_push(History_new, current)
                   ELSE History_new
    IN  IF found /\ read.result # "ok"
        THEN Err(read.result)
        ELSE Ok([ path |-> path, tracks |-> tracks, history |-> history,
                  current |-> current, shuffle |-> state.shuffle ])

\* Queue::shuffle keeping the history
Queue_shuffle_keep(q) == [ q EXCEPT !.shuffle = ~ q.shuffle ]

\* Queue::shuffle
Queue_shuffle(q) ==
    [ q EXCEPT !.history = History_clear(q.history), !.shuffle = ~ q.shuffle ]

\* Queue::set_shuffle
Queue_set_shuffle(q, shuffle) ==
    IF q.shuffle # shuffle
    THEN [ q EXCEPT !.history = History_clear(q.history), !.shuffle = shuffle ]
    ELSE q

\* Queue::replace: tracks[index] panics when index is out of range
Queue_replace(q, index, via) ==
    IF index >= 0 /\ index < Len(q.tracks)
    THEN Outcome([ q EXCEPT !.current = index ], << q.tracks[index + 1] >>, "ok", via)
    ELSE Outcome(q, << >>, "panic", via)

\* Queue::queue resetting the queue before it reads the directory
Queue_queue_reset(q, path) ==
    IF Track_directory(path).result # "ok"
    THEN Outcome([ q EXCEPT !.current = None, !.history = History_clear(q.history) ],
                 << >>, Track_directory(path).result, "none")
    ELSE Outcome([ q EXCEPT !.path = path,
                            !.tracks = Unwrap(Track_directory(path)),
                            !.current = None,
                            !.history = History_clear(q.history) ],
                 << >>, "ok", "none")

\* Queue::queue keeping the current index and the history
Queue_queue_keep(q, path) ==
    IF Track_directory(path).result # "ok"
    THEN Outcome(q, << >>, Track_directory(path).result, "none")
    ELSE Outcome([ q EXCEPT !.path = path, !.tracks = Unwrap(Track_directory(path)) ],
                 << >>, "ok", "none")

\* Queue::queue keeping the current index
Queue_queue_current(q, path) ==
    IF Track_directory(path).result # "ok"
    THEN Outcome(q, << >>, Track_directory(path).result, "none")
    ELSE Outcome([ q EXCEPT !.path = path,
                            !.tracks = Unwrap(Track_directory(path)),
                            !.history = History_clear(q.history) ],
                 << >>, "ok", "none")

\* Queue::queue
Queue_queue(q, path) ==
    IF Track_directory(path).result # "ok"
    THEN Outcome(q, << >>, Track_directory(path).result, "none")
    ELSE Outcome([ q EXCEPT !.path = path,
                            !.tracks = Unwrap(Track_directory(path)),
                            !.current = None,
                            !.history = History_clear(q.history) ],
                 << >>, "ok", "none")

\* the history cleared after a successful replace, as select_* do
ClearAfter(out) ==
    IF out.result = "ok"
    THEN [ out EXCEPT !.q.history = History_clear(out.q.history) ]
    ELSE out

\* Queue::select_path
Queue_select_path(q, path) ==
    LET index == Position(q.tracks, path)
    IN  IF index = None
        THEN Outcome(q, << >>, "NoTrack", "none")
        ELSE ClearAfter(Queue_replace(q, index, "select"))

\* Queue::select_idx keeping the history
Queue_select_idx_keep(q, index) ==
    IF ~ (index >= 0 /\ index < Len(q.tracks))
    THEN Outcome(q, << >>, "OutOfBounds", "none")
    ELSE Queue_replace(q, index, "select")

\* Queue::select_idx
Queue_select_idx(q, index) ==
    IF ~ (index >= 0 /\ index < Len(q.tracks))
    THEN Outcome(q, << >>, "OutOfBounds", "none")
    ELSE ClearAfter(Queue_replace(q, index, "select"))

\* Queue::last_track_sequential without the wrap from index 0
Queue_last_track_sequential_nowrap(q) ==
    IF Len(q.tracks) = 0 THEN None
    ELSE IF q.current = None THEN None
    ELSE SaturatingSub(q.current, 1)

\* Queue::last_track_sequential
Queue_last_track_sequential(q) ==
    IF Len(q.tracks) = 0 THEN None
    ELSE IF q.current = None THEN None
    ELSE IF q.current = 0 THEN SaturatingSub(Len(q.tracks), 1)
    ELSE SaturatingSub(q.current, 1)

\* Queue::last
Queue_last(q) ==
    LET hp == History_prev(q.history)
        q1 == [ q EXCEPT !.history = hp.h ]
    IN  IF hp.panic THEN Outcome(q1, << >>, "panic", "history")
        ELSE IF hp.ret # None THEN Queue_replace(q1, hp.ret, "history")
        ELSE IF ~ q.shuffle
             THEN IF Queue_last_track_sequential(q1) # None
                  THEN Queue_replace(q1, Queue_last_track_sequential(q1), "sequential")
                  ELSE Outcome(q1, << >>, "ok", "none")
             ELSE Outcome(q1, << >>, "ok", "none")

\* Queue::next_track_sequential without the wrap after the last index
Queue_next_track_sequential_nowrap(q) ==
    IF Len(q.tracks) = 0 THEN None
    ELSE IF q.current = None THEN 0
    ELSE q.current + 1

\* Queue::next_track_sequential
Queue_next_track_sequential(q) ==
    IF Len(q.tracks) = 0 THEN None
    ELSE IF q.current = None THEN 0
    ELSE (q.current + 1) % Len(q.tracks)

\* the loop of next_track_shuffle accepting the current index too
ShuffleDraws_any(q) == 0 .. Len(q.tracks) - 1

\* the values the loop of next_track_shuffle can return: every index that
\* is not the current one
ShuffleDraws(q) ==
    { track \in 0 .. Len(q.tracks) - 1 : q.current = None \/ q.current # track }

\* Queue::next_track_shuffle, draw being the index its loop accepts
Queue_next_track_shuffle(q, draw) ==
    IF Len(q.tracks) = 0 THEN None
    ELSE IF Len(q.tracks) <= 1 THEN 0
    ELSE draw

\* next_track reaches the random loop of next_track_shuffle
UsesRandom(q) ==
    /\ History_next(q.history).ret = None
    /\ q.shuffle
    /\ Len(q.tracks) > 1

\* Queue::next_track not recording the shuffled index
Queue_next_track_nopush(q, draw) ==
    LET hn == History_next(q.history)
    IN  IF hn.ret # None
        THEN [ q |-> [ q EXCEPT !.history = hn.h ], ret |-> hn.ret, via |-> "history" ]
        ELSE IF ~ q.shuffle
        THEN [ q |-> q, ret |-> Queue_next_track_sequential(q),
               via |-> IF Queue_next_track_sequential(q) = None
                       THEN "none" ELSE "sequential" ]
        ELSE IF Queue_next_track_shuffle(q, draw) # None
        THEN [ q |-> q, ret |-> Queue_next_track_shuffle(q, draw), via |-> "shuffle" ]
        ELSE [ q |-> q, ret |-> None, via |-> "none" ]

\* Queue::next_track never replaying the history
Queue_next_track_fresh(q, draw) ==
    IF ~ q.shuffle
    THEN [ q |-> q, ret |-> Queue_next_track_sequential(q),
           via |-> IF Queue_next_track_sequential(q) = None
                   THEN "none" ELSE "sequential" ]
    ELSE IF Queue_next_track_shuffle(q, draw) # None
    THEN [ q |-> [ q EXCEPT !.history =
                     History_push(q.history, Queue_next_track_shuffle(q, draw)) ],
           ret |-> Queue_next_track_shuffle(q, draw), via |-> "shuffle" ]
    ELSE [ q |-> q, ret |-> None, via |-> "none" ]

\* Queue::next_track: the queue after the call, the index and the rule
Queue_next_track(q, draw) ==
    LET hn == History_next(q.history)
    IN  IF hn.ret # None
        THEN [ q |-> [ q EXCEPT !.history = hn.h ], ret |-> hn.ret, via |-> "history" ]
        ELSE IF ~ q.shuffle
        THEN [ q |-> q, ret |-> Queue_next_track_sequential(q),
               via |-> IF Queue_next_track_sequential(q) = None
                       THEN "none" ELSE "sequential" ]
        ELSE IF Queue_next_track_shuffle(q, draw) # None
        THEN [ q |-> [ q EXCEPT !.history =
                         History_push(q.history, Queue_next_track_shuffle(q, draw)) ],
               ret |-> Queue_next_track_shuffle(q, draw), via |-> "shuffle" ]
        ELSE [ q |-> q, ret |-> None, via |-> "none" ]

\* Queue::next
Queue_next(q, draw) ==
    LET nt == Queue_next_track(q, draw)
    IN  IF nt.ret # None
        THEN Queue_replace(nt.q, nt.ret, nt.via)
        ELSE Outcome(nt.q, << >>, "ok", "none")

\* Duration::MAX, standing for the largest Duration
DurationMax == 2147483647

\* Duration::saturating_add
Duration_saturating_add(a, b) ==
    IF a > DurationMax - b THEN DurationMax ELSE a + b

\* Option::zip of State::elapsed and State::duration: both are Some
State_elapsed_duration(elapsed, duration) == elapsed # None /\ duration # None

\* the effect of Queue::seek_i: the outcome for the queue and the positions
\* handed to Player::seek
Sought(out, sought) == [ out |-> out, sought |-> sought ]

\* Queue::seek_i advancing only when the position is past the duration
Queue_seek_i_past(q, elapsed, duration, amt, draw) ==
    IF q.current # None /\ State_elapsed_duration(elapsed, duration)
    THEN LET position == Duration_saturating_add(elapsed, amt)
         IN  IF position > duration
             THEN Sought(Queue_next(q, draw), << >>)
             ELSE Sought(Outcome(q, << >>, "ok", "none"), << position >>)
    ELSE Sought(Outcome(q, << >>, "ok", "none"), << >>)

\* Queue::seek_i
Queue_seek_i(q, elapsed, duration, amt, draw) ==
    IF q.current # None /\ State_elapsed_duration(elapsed, duration)
    THEN LET position == Duration_saturating_add(elapsed, amt)
         IN  IF position >= duration
             THEN Sought(Queue_next(q, draw), << >>)
             ELSE Sought(Outcome(q, << >>, "ok", "none"), << position >>)
    ELSE Sought(Outcome(q, << >>, "ok", "none"), << >>)

\* seek_i goes on to Queue::next
SeekAdvances(q, elapsed, duration, amt) ==
    /\ q.current # None
    /\ State_elapsed_duration(elapsed, duration)
    /\ Duration_saturating_add(elapsed, amt) >= duration

\* ------------------------------------------------------------------------
\* the audio engine (Process) and its two channels
\* ------------------------------------------------------------------------

\* capacity of the control -> engine ring buffer
ToProcessCap == 64

\* capacity of the engine -> control ring buffer
FromProcessCap == 256

\* samples in the output buffer of one audio callback (one stereo frame)
DataLen == 2

\* frames of one block of a stream
BlockSize == 2

\* sample rate of the output device, in frames for each second
DeviceRate == 2

\* the Durations of the player are counted in this fraction of a second
Fraction == 2

\* Duration::from_secs_f64 of frames / sample_rate
Seconds(frames, rate) == (frames * Fraction) \div rate

\* Duration::as_secs_f64 times sample_rate, as usize
Frame(duration, rate) == (duration * rate) \div Fraction

\* frames the resampler puts out for one block: FastFixedIn with the ratio
\* of the device rate to the stream rate
ResampledFrames(rate) == (BlockSize * DeviceRate) \div rate

\* a sample the output buffer may hold when the callback starts
Stale == 7

\* the messages of the two channels
UseStream(stream, status) ==
    [ type |-> "UseStream", stream |-> Some(stream), status |-> status, value |-> 0 ]
Status(status) ==
    [ type |-> "Status", stream |-> Nothing, status |-> status, value |-> 0 ]
Volume(volume) ==
    [ type |-> "Volume", stream |-> Nothing, status |-> "Paused", value |-> volume ]
SeekTo(position) ==
    [ type |-> "SeekTo", stream |-> Nothing, status |-> "Paused", value |-> position ]
Playhead(position) == [ type |-> "Playhead", value |-> position ]
IsDone == [ type |-> "IsDone", value |-> 0 ]

\* rtrb Producer::push whose result is discarded: the message is appended
\* unless the ring buffer is full
Push(channel, msg, cap) ==
    IF Len(channel) < cap THEN Append(channel, msg) ELSE channel

\* a pop that takes the newest message
Pop_newest(channel) ==
    [ msg |-> channel[Len(channel)], rest |-> SubSeq(channel, 1, Len(channel) - 1) ]

\* rtrb Consumer::pop of a ring buffer that holds a message: the oldest
\* message and the ring buffer without it
Pop_message(channel) == [ msg |-> Head(channel), rest |-> Tail(channel) ]

\* the messages a push has added to a ring buffer
Added(channel, after) == SubSeq(after, Len(channel) + 1, Len(after))

\* the file of a track: its frames and its sample rate
NumFrames(path) ==
    IF path % 10 = 0 THEN FromProcessCap + 2 ELSE IF path % 10 = 1 THEN 1 ELSE 2
SampleRate(path) == IF path % 10 = 1 THEN 1 ELSE DeviceRate

\* ReadDiskStream::new followed by seek: a stream of a track at a position
ReadDiskStream(path, start) ==
    [ id |-> path, playhead |-> Frame(start, SampleRate(path)),
      frames |-> NumFrames(path), rate |-> SampleRate(path) ]

\* Process::new
Process_new ==
    [ stream |-> Nothing, buffer |-> << >>, resampler |-> FALSE,
      status |-> "Paused", volume |-> 45, done |-> FALSE ]

\* Process::playhead
Process_playhead(stream) == Seconds(stream.playhead, stream.rate)

\* Process::silence
Process_silence(data) == [ i \in 1 .. Len(data) |-> 0 ]

\* the engine and its sending end after a step
Engine(p, tx) == [ p |-> p, tx |-> tx ]

\* the arm of a message that swaps the stream and keeps the buffer
Process_message_keep(p, tx, msg) ==
    IF msg.type = "UseStream"
    THEN LET stream == msg.stream[1]
         IN  Engine([ p EXCEPT !.resampler = (DeviceRate # stream.rate),
                               !.status = msg.status,
                               !.done = FALSE,
                               !.stream = Some(stream) ],
                    Push(tx, Playhead(Process_playhead(stream)), FromProcessCap))
    ELSE IF msg.type = "Status"
    THEN Engine([ p EXCEPT !.status = msg.status ], tx)
    ELSE IF msg.type = "Volume"
    THEN Engine([ p EXCEPT !.volume = msg.value ], tx)
    ELSE IF Len(p.stream) > 0
    THEN Engine([ p EXCEPT !.stream = Some([ p.stream[1] EXCEPT
                               !.playhead = Frame(msg.value, p.stream[1].rate) ]),
                           !.buffer = << >> ],
                Push(tx, Playhead(msg.value), FromProcessCap))
    ELSE Engine(p, tx)

\* the arm of a message that seeks and keeps the buffer
Process_message_ahead(p, tx, msg) ==
    IF msg.type = "UseStream"
    THEN LET stream == msg.stream[1]
         IN  Engine([ p EXCEPT !.buffer = << >>,
                               !.resampler = (DeviceRate # stream.rate),
                               !.status = msg.status,
                               !.done = FALSE,
                               !.stream = Some(stream) ],
                    Push(tx, Playhead(Process_playhead(stream)), FromProcessCap))
    ELSE IF msg.type = "Status"
    THEN Engine([ p EXCEPT !.status = msg.status ], tx)
    ELSE IF msg.type = "Volume"
    THEN Engine([ p EXCEPT !.volume = msg.value ], tx)
    ELSE IF Len(p.stream) > 0
    THEN Engine([ p EXCEPT !.stream = Some([ p.stream[1] EXCEPT
                               !.playhead = Frame(msg.value, p.stream[1].rate) ]) ],
                Push(tx, Playhead(msg.value), FromProcessCap))
    ELSE Engine(p, tx)

\* the streams that the arm of one message drops inside the callback: the
\* assignment of the UseStream arm drops the stream it overwrites
Process_drops(p, msg) == IF msg.type = "UseStream" THEN p.stream ELSE Nothing

\* Process::process, the arm of one message, keeping a resampler it has
Process_message_sticky(p, tx, msg) ==
    IF msg.type = "UseStream"
    THEN LET stream == msg.stream[1]
         IN  Engine([ p EXCEPT !.buffer = << >>,
                               !.resampler = (p.resampler \/ DeviceRate # stream.rate),
                               !.status = msg.status,
                               !.done = FALSE,
                               !.stream = Some(stream) ],
                    Push(tx, Playhead(Process_playhead(stream)), FromProcessCap))
    ELSE IF msg.type = "Status"
    THEN Engine([ p EXCEPT !.status = msg.status ], tx)
    ELSE IF msg.type = "Volume"
    THEN Engine([ p EXCEPT !.volume = msg.value ], tx)
    ELSE IF Len(p.stream) > 0
    THEN Engine([ p EXCEPT !.stream = Some([ p.stream[1] EXCEPT
                               !.playhead = Frame(msg.value, p.stream[1].rate) ]),
                           !.buffer = << >> ],
                Push(tx, Playhead(msg.value), FromProcessCap))
    ELSE Engine(p, tx)

\* the debug assertion of the Volume arm: the gain is within 0 ..= 1, the
\* volume within 0 ..= 100 percent
VolumeAsserted(msg) == msg.type = "Volume" => msg.value \in 0 .. 100

\* Process::process, the arm of one message of the drain loop
Process_message(p, tx, msg) ==
    IF msg.type = "UseStream"
    THEN LET stream == msg.stream[1]
         IN  Engine([ p EXCEPT !.buffer = << >>,
                               !.resampler = (DeviceRate # stream.rate),
                               !.status = msg.status,
                               !.done = FALSE,
                               !.stream = Some(stream) ],
                    Push(tx, Playhead(Process_playhead(stream)), FromProcessCap))
    ELSE IF msg.type = "Status"
    THEN Engine([ p EXCEPT !.status = msg.status ], tx)
    ELSE IF msg.type = "Volume"
    THEN Engine([ p EXCEPT !.volume = msg.value ], tx)
    ELSE IF Len(p.stream) > 0
    THEN Engine([ p EXCEPT !.stream = Some([ p.stream[1] EXCEPT
                               !.playhead = Frame(msg.value, p.stream[1].rate) ]),
                           !.buffer = << >> ],
                Push(tx, Playhead(msg.value), FromProcessCap))
    ELSE Engine(p, tx)

\* n samples of a stream
Samples(stream, n) == [ i \in 1 .. n |-> stream.id ]

\* ReadDiskStream::read of one block: the frames it returns, none at the
\* end of the file
ReadFrames(stream) ==
    IF stream.playhead >= stream.frames THEN 0
    ELSE IF stream.frames - stream.playhead < BlockSize
    THEN stream.frames - stream.playhead
    ELSE BlockSize

\* the samples one block adds to the buffer, two for each frame, through
\* the resampler when there is one
Block(p, stream) ==
    Samples(stream, 2 * (IF p.resampler THEN ResampledFrames(stream.rate) ELSE ReadFrames(stream)))

\* the result of the rendering part of Process::process
Rendered(p, tx, data, path) == [ p |-> p, tx |-> tx, data |-> data, path |-> path ]

\* the gain applied to a sample, in millionths
Gain(volume) == volume * volume * volume

\* Process::process, the fill loop, the copy into data and the report
RECURSIVE Process_fill(_, _, _)
Process_fill(p, tx, data) ==
    LET stream == p.stream[1]
    IN  IF Len(p.buffer) < Len(data)
        THEN IF ReadFrames(stream) = 0
             THEN Rendered([ p EXCEPT !.done = TRUE ],
                           Push(tx, IsDone, FromProcessCap),
                           Process_silence(data), "eof")
             ELSE Process_fill(
                     [ p EXCEPT !.buffer = p.buffer \o Block(p, stream),
                                !.stream = Some([ stream EXCEPT
                                    !.playhead = stream.playhead + ReadFrames(stream) ]) ],
                     tx, data)
        ELSE Rendered([ p EXCEPT !.buffer = SubSeq(p.buffer, Len(data) + 1, Len(p.buffer)) ],
                      Push(tx, Playhead(Process_playhead(stream)), FromProcessCap),
                      [ i \in 1 .. Len(data) |-> p.buffer[i] * Gain(p.volume) ],
                      "audio")

\* the rendering part going on after the end of the file
Process_render_on(p, tx, data, ready) ==
    IF Len(p.stream) > 0
    THEN IF ~ ready
         THEN Rendered(p, tx, Process_silence(data), "unready")
         ELSE IF p.status = "Paused"
         THEN Rendered(p, tx, Process_silence(data), "paused")
         ELSE Process_fill(p, tx, data)
    ELSE Rendered(p, tx, data, "idle")

\* the rendering part reading and playing whatever the status is
Process_render_through(p, tx, data, ready) ==
    IF Len(p.stream) > 0
    THEN IF p.done \/ ~ ready
         THEN Rendered(p, tx, Process_silence(data), IF p.done THEN "done" ELSE "unready")
         ELSE Process_fill(p, tx, data)
    ELSE Rendered(p, tx, data, "idle")

\* Process::process after the drain loop; ready is ReadDiskStream::is_ready
Process_render(p, tx, data, ready) ==
    IF Len(p.stream) > 0
    THEN IF p.done \/ ~ ready
         THEN Rendered(p, tx, Process_silence(data), IF p.done THEN "done" ELSE "unready")
         ELSE IF p.status = "Paused"
         THEN Rendered(p, tx, Process_silence(data), "paused")
         ELSE Process_fill(p, tx, data)
    ELSE Rendered(p, tx, data, "idle")

\* the arm of a message calls ReadDiskStream::seek and unwraps its result
Process_seeks(p, msg) == msg.type = "SeekTo" /\ Len(p.stream) > 0

\* the rendering part calls ReadDiskStream::read: there is a stream that is
\* ready, not done and playing, and the buffer holds less than data takes
Process_reads(p, data, ready) ==
    /\ Len(p.stream) > 0
    /\ ~ p.done
    /\ ready
    /\ p.status = "Play"
    /\ Len(p.buffer) < Len(data)

\* ------------------------------------------------------------------------
\* the Player
\* ------------------------------------------------------------------------

\* Player::new
Player_new ==
    [ muted |-> FALSE, volume |-> 45, done |-> FALSE, status |-> "Paused",
      elapsed |-> None, duration |-> None ]

\* the Player, its sending end and whether the call panicked
Control(pl, tx, panic) == [ pl |-> pl, tx |-> tx, panic |-> panic ]

\* Player::update, the arm of one message
Player_update_message(pl, msg) ==
    IF msg.type = "Playhead"
    THEN [ pl EXCEPT !.elapsed = msg.value ]
    ELSE [ pl EXCEPT !.done = TRUE ]

\* ReadDiskStream::new, seek and block_until_ready return Ok: the file of
\* the track opens and decodes
Opens(path) == path # DamagedTrack

\* Player::replace_inner keeping the status the Player had
Player_replace_inner_resume(pl, tx, path, status, start) ==
    IF ~ Opens(path) THEN Control(pl, tx, TRUE)
    ELSE Control([ pl EXCEPT !.duration = Seconds(NumFrames(path), SampleRate(path)),
                             !.elapsed = start,
                             !.done = FALSE ],
                 Push(tx, UseStream(ReadDiskStream(path, start), pl.status), ToProcessCap),
                 Len(tx) >= ToProcessCap)

\* Player::replace_inner: the stream is unwrapped before any field is
\* assigned, the push after
Player_replace_inner(pl, tx, path, status, start) ==
    IF ~ Opens(path) THEN Control(pl, tx, TRUE)
    ELSE Control([ pl EXCEPT !.duration = Seconds(NumFrames(path), SampleRate(path)),
                             !.elapsed = start,
                             !.status = status,
                             !.done = FALSE ],
                 Push(tx, UseStream(ReadDiskStream(path, start), status), ToProcessCap),
                 Len(tx) >= ToProcessCap)

\* Playable::replace of the Player
Player_replace(pl, tx, path) == Player_replace_inner(pl, tx, path, "Play", 0)

\* Player::revive
Player_revive(pl, tx, path, start) == Player_replace_inner(pl, tx, path, "Paused", start)

\* Player::state up to the push of the Volume message
Player_state_volume(pl, tx, volume, muted) ==
    Control([ pl EXCEPT !.volume = volume ],
            Push(tx, Volume(IF muted THEN 0 ELSE volume), ToProcessCap), FALSE)

\* Duration::from_secs, in the fraction of a second the Player counts in
Duration_from_secs(secs) == secs * Fraction

\* the position Player::state revives the current track at
State_start(elapsed) == IF elapsed = None THEN 0 ELSE elapsed

\* Player::state, from the volume, muted flag and elapsed time of a State
\* and the current track of the Queue, with no audio callback between its
\* two pushes
Player_state(pl, tx, queue, volume, muted, elapsed) ==
    LET told == Player_state_volume(pl, tx, volume, muted)
    IN  IF queue.current # None
        THEN Player_revive(told.pl, told.tx, queue.tracks[queue.current + 1],
                           State_start(elapsed))
        ELSE told

\* Player::done
Player_done(pl) == pl.duration # None /\ pl.done

\* Player::seek
Player_seek(pl, tx, position) == Control(pl, Push(tx, SeekTo(position), ToProcessCap), FALSE)

\* PlaybackStatus::invert
Invert(status) == IF status = "Paused" THEN "Play" ELSE "Paused"

\* Player::toggle sending the status it had
Player_toggle_stale(pl, tx) ==
    Control([ pl EXCEPT !.status = Invert(pl.status) ],
            Push(tx, Status(pl.status), ToProcessCap), FALSE)

\* Player::toggle
Player_toggle(pl, tx) ==
    Control([ pl EXCEPT !.status = Invert(pl.status) ],
            Push(tx, Status(Invert(pl.status)), ToProcessCap), FALSE)

\* Player::pause
Player_pause(pl, tx, status) ==
    Control([ pl EXCEPT !.status = status ],
            Push(tx, Status(status), ToProcessCap), FALSE)

\* Player::mute
Player_mute(pl, tx) ==
    Control([ pl EXCEPT !.muted = ~ pl.muted ],
            Push(tx, Volume(IF ~ pl.muted THEN 0 ELSE pl.volume), ToProcessCap), FALSE)

\* Player::volume
Player_volume(pl) == pl.volume

\* Player::muted
Player_muted(pl) == pl.muted

\* u8::saturating_add
U8_saturating_add(a, b) == IF a + b > 255 THEN 255 ELSE a + b

\* u8::saturating_sub
U8_saturating_sub(a, b) == IF a < b THEN 0 ELSE a - b

\* Player::i_vol
Player_i_vol(pl, tx, amt) ==
    LET sum == U8_saturating_add(pl.volume, amt)
        vol == IF sum > 100 THEN 100 ELSE sum
    IN  Control([ pl EXCEPT !.volume = vol ], Push(tx, Volume(vol), ToProcessCap), FALSE)

\* Player::d_vol
Player_d_vol(pl, tx, amt) ==
    LET vol == U8_saturating_sub(pl.volume, amt)
    IN  Control([ pl EXCEPT !.volume = vol ], Push(tx, Volume(vol), ToProcessCap), FALSE)

\* Player::set_volume
Player_set_volume(pl, tx, vol) ==
    Control([ pl EXCEPT !.volume = vol ], Push(tx, Volume(vol), ToProcessCap), FALSE)

\* the tracks a Queue operation handed to Playable::replace, replaced one
\* after the other
RECURSIVE Replaced(_, _)
Replaced(c, tracks) ==
    IF Len(tracks) = 0 \/ c.panic THEN c
    ELSE Replaced(Player_replace(c.pl, c.tx, tracks[1]), Tail(tracks))

\* ------------------------------------------------------------------------
\* state
\* ------------------------------------------------------------------------

VARIABLES
    q,       \* the Queue: path, tracks, history, current, shuffle
    sent,    \* tracks the last operation handed to Playable::replace
    op,      \* the last operation: name, argument, result, selecting rule,
             \* random draws it consumed
    pre,     \* the Queue before the last operation
    prior,   \* the operation before the last one, when it was a last() or a
             \* successful select_*: its kind and, for last(), the index that
             \* was current before it
    picks,   \* random draws consumed by next_track_shuffle so far
    seek,    \* the last operation, when it was a seek_i: the elapsed time and
             \* duration of the State, the amount, and the positions it
             \* handed to Player::seek
    hist,    \* a History driven directly (History specification)
    call,    \* the last History call: name, argument, returned value
    before,  \* the History before the last call
    earlier, \* the call before the last one: name, returned value and the
             \* History before it
    pushes,  \* History::push calls made so far (History specification)
    ord,     \* the last comparison of Tracks: the tags of the Tracks and the
             \* Orderings that Track::cmp returned
    proc,    \* the Process of the audio callback: stream, buffer, resampler,
             \* status, volume, done
    data,    \* the output buffer of the audio callback
    cb,      \* the audio callback: where it is in Process::process, the
             \* messages that were waiting when it began, the messages it
             \* has consumed, the messages the Player has enqueued since,
             \* the Process when it began
    to_process, \* the control -> engine ring buffer
    to_main,    \* the engine -> control ring buffer
    player,  \* the Player: muted, volume, done, status, elapsed, duration
    main,    \* the control thread: where it is in the run loop, skip_done
    calls,   \* key presses the run may still handle
    callbacks, \* audio callbacks the run may still begin
    step,    \* the last step of the audio callback: its name, the message
             \* it handled, the path it took, whether the engine -> control
             \* ring buffer was full, the messages it added to it
    was      \* the Process before the last step of the audio callback

qvars == << q, sent, op, pre, prior, picks, seek >>
hvars == << hist, call, before, earlier, pushes, ord >>
pvars == << proc, data, cb, to_process, to_main, player, main, calls, callbacks,
            step, was >>
vars == << q, sent, op, pre, prior, picks, seek, hist, call, before, earlier, pushes,
           ord, proc, data, cb, to_process, to_main, player, main, calls, callbacks,
           step, was >>

\* persisted states Queue::with_state is given: the queue path is absent,
\* missing, a directory, a directory that cannot be read, searched or
\* sorted, or a file, the track is absent or an existing file
States ==
    [ queue : { None, MissingPath, LockedPath, SealedPath, UnsortedPath } \cup DirPaths
                 \cup { TrackPath(1, 0), TrackPath(2, 1) },
      track : { None } \cup FilePaths,
      shuffle : BOOLEAN ]

\* the draw of the k-th call of a run of shuffled next() calls: the index
\* after the current one
RunDraw(qq) ==
    IF qq.current = None THEN 0 ELSE (qq.current + 1) % Len(qq.tracks)

\* the queue after n consecutive shuffled Queue::next calls (the run is
\* computed in two halves)
RECURSIVE NextRun(_, _)
NextRun(qq, n) ==
    IF n = 0 THEN qq
    ELSE IF n = 1 THEN Queue_next(qq, RunDraw(qq)).q
    ELSE LET half == NextRun(qq, n \div 2)
         IN  IF half.current # None THEN NextRun(half, n - (n \div 2)) ELSE half

\* lengths of the runs of next() calls that fill the history
RunLengths == { HistoryCap - 1, HistoryCap }

\* queues that have played for a while: restored shuffled on a directory of
\* at least two tracks, then advanced by a run of next() calls
LongPlayed ==
    { NextRun(Unwrap(Queue_with_state([ queue |-> DirPath(d), track |-> None,
                                        shuffle |-> TRUE ])), n) :
        d \in DirSizes \ { 0, 1 }, n \in RunLengths }

Called(name, arg, result, via, draws) ==
    [ name |-> name, arg |-> arg, result |-> result, via |-> via, draws |-> draws ]

HCalled(name, arg, ret) == [ name |-> name, arg |-> arg, ret |-> ret ]

\* what the next operation keeps of the operation before it
Remembered(o, p) ==
    IF o.name = "last"
    THEN [ name |-> "last", current |-> p.current ]
    ELSE IF o.name \in { "select_idx", "select_path" } /\ o.result = "ok"
    THEN [ name |-> "select", current |-> None ]
    ELSE [ name |-> "other", current |-> None ]

\* no seek_i was called
NoSeek == [ elapsed |-> None, duration |-> None, amt |-> None, sought |-> << >> ]

QueueInit ==
    /\ q \in { Unwrap(Queue_with_state(state)) :
                state \in { s \in States : Queue_with_state(s).result = "ok" } }
            \cup LongPlayed
    /\ sent = << >>
    /\ op = Called("with_state", None, "ok", "none", 0)
    /\ pre = q
    /\ prior = Remembered(op, pre)
    /\ seek = NoSeek
    /\ picks = 0

\* the index a run of pushes stores next: 0 and 1 in turn
RunValue(h) == Len(h.queue) % 2

\* the History after n more pushes (the run is computed in two halves)
RECURSIVE PushRun(_, _)
PushRun(h, n) ==
    IF n = 0 THEN h
    ELSE IF n = 1 THEN History_push(h, RunValue(h))
    ELSE LET half == PushRun(h, n \div 2)
         IN  IF Len(half.queue) > 0 THEN PushRun(half, n - (n \div 2)) ELSE half

\* Histories the calls start from: new, or filled by a run of pushes and
\* then walked back to some cursor position
HistoryInits ==
    { History_new } \cup
    { [ PushRun(History_new, n) EXCEPT !.index = c ] :
        n \in RunLengths, c \in { 0, 1, HistoryCap - 2 } }

HistoryInit ==
    /\ hist \in HistoryInits
    /\ call = HCalled("new", None, None)
    /\ before = hist
    /\ earlier = [ name |-> "none", ret |-> None, h |-> hist ]
    /\ pushes = 0
    /\ ord = NoOrder

\* ------------------------------------------------------------------------
\* Queue operations
\* ------------------------------------------------------------------------

\* a panic (an out-of-range index) ends the program, and so does the error
\* of Queue::with_state, which main returns
Alive ==
    /\ op.result \notin { "panic", "expect panics", "sort panics" }
    /\ op.name = "with_state" => op.result = "ok"

Effect(name, arg, out, draws) ==
    /\ Alive
    /\ pre' = q
    /\ prior' = Remembered(op, pre)
    /\ q' = out.q
    /\ sent' = out.sent
    /\ op' = Called(name, arg, out.result, out.via, draws)
    /\ picks' = picks + draws

Apply(name, arg, out, draws) ==
    /\ Effect(name, arg, out, draws)
    /\ seek' = NoSeek

\* Queue::next
Next_ ==
    /\ Alive
    /\ \E draw \in (IF UsesRandom(q) THEN ShuffleDraws(q) ELSE { None }) :
          Apply("next", draw, Queue_next(q, draw), IF UsesRandom(q) THEN 1 ELSE 0)
    /\ UsesRandom(q) => picks < MaxPicks
    /\ UNCHANGED << hvars, pvars >>

\* Queue::last
Last ==
    /\ Apply("last", None, Queue_last(q), 0)
    /\ UNCHANGED << hvars, pvars >>

\* Queue::shuffle
Shuffle ==
    /\ Apply("shuffle", None, Outcome(Queue_shuffle(q), << >>, "ok", "none"), 0)
    /\ UNCHANGED << hvars, pvars >>

\* Queue::set_shuffle
SetShuffle ==
    /\ \E b \in BOOLEAN :
          Apply("set_shuffle", IF b THEN 1 ELSE 0,
                Outcome(Queue_set_shuffle(q, b), << >>, "ok", "none"), 0)
    /\ UNCHANGED << hvars, pvars >>

\* Queue::queue
QueueDir ==
    /\ \E path \in DirPaths \cup { LockedPath, SealedPath, TrackPath(1, 0) } :
          Apply("queue", path, Queue_queue(q, path), 0)
    /\ UNCHANGED << hvars, pvars >>

\* Queue::select_path
SelectPath ==
    /\ \E path \in FilePaths \cup { MissingPath } :
          Apply("select_path", path, Queue_select_path(q, path), 0)
    /\ UNCHANGED << hvars, pvars >>

\* Queue::select_idx
SelectIdx ==
    /\ \E index \in 0 .. MaxTracks :
          Apply("select_idx", index, Queue_select_idx(q, index), 0)
    /\ UNCHANGED << hvars, pvars >>

\* elapsed times and durations the State holds, in seconds
Elapsed == { None, 0, 1 }
Durations == { None, 2 }

\* amounts the key handler seeks by, in seconds: Config::seek() of a
\* seek: Option<u8>, here one second and the largest, 255 seconds
Amounts == { 1, 255 }

\* Queue::seek_i
SeekI ==
    /\ \E elapsed \in Elapsed, duration \in Durations, amt \in Amounts :
          LET advances == SeekAdvances(q, elapsed, duration, amt)
              random == advances /\ UsesRandom(q)
          IN  /\ random => picks < MaxPicks
              /\ \E draw \in (IF random THEN ShuffleDraws(q) ELSE { None }) :
                    LET done == Queue_seek_i(q, elapsed, duration, amt, draw)
                    IN  /\ Effect("seek_i", draw, done.out, IF random THEN 1 ELSE 0)
                        /\ seek' = [ elapsed |-> elapsed, duration |-> duration,
                                     amt |-> amt, sought |-> done.sought ]
    /\ UNCHANGED << hvars, pvars >>

\* no message
NoMessage == [ type |-> "none", stream |-> Nothing, status |-> "Paused", value |-> 0 ]

\* no step of the audio callback was taken
NoStep ==
    [ name |-> "none", msg |-> NoMessage, path |-> "none", full |-> FALSE,
      reports |-> << >> ]

\* the audio callback is not running
Waiting(p) ==
    [ pc |-> "idle", pending |-> << >>, consumed |-> << >>, enqueued |-> << >>,
      start |-> p ]

\* the control thread is between two handlers
Looping(skip_done) == [ pc |-> "idle", skip_done |-> skip_done ]

\* Player::new and Process::new, before any callback
PlayerStart ==
    /\ proc = Process_new
    /\ data = Process_silence([ i \in 1 .. DataLen |-> 0 ])
    /\ cb = Waiting(Process_new)
    /\ to_process = << >>
    /\ to_main = << >>
    /\ player = Player_new
    /\ main = Looping(FALSE)
    /\ calls = 0
    /\ callbacks = 0
    /\ step = NoStep
    /\ was = Process_new

Init == QueueInit /\ HistoryInit /\ hist = History_new /\ PlayerStart

Next ==
    \/ Next_
    \/ Last
    \/ Shuffle
    \/ SetShuffle
    \/ QueueDir
    \/ SelectPath
    \/ SelectIdx

Spec == Init /\ [][Next]_vars

\* seeking forward in a queue that is being played: the keys that select,
\* skip, go back, toggle shuffle and seek
NextSeek ==
    \/ SeekI
    \/ SelectIdx
    \/ Next_
    \/ Last
    \/ Shuffle

SpecSeek == Init /\ [][NextSeek]_vars

\* the Queue restored from a persisted State, which the run remembers, and
\* the keys that skip and go back
RestoreInit ==
    /\ \E state \in States :
          /\ q = IF Queue_with_state(state).result = "ok"
                 THEN Unwrap(Queue_with_state(state))
                 ELSE Nothing
          /\ op = Called("with_state", state, Queue_with_state(state).result, "none", 0)
    /\ sent = << >>
    /\ pre = q
    /\ prior = Remembered(op, pre)
    /\ seek = NoSeek
    /\ picks = 0
    /\ HistoryInit
    /\ hist = History_new
    /\ PlayerStart

RestoreNext ==
    \/ Next_
    \/ Last
    \/ Shuffle

SpecRestore == RestoreInit /\ [][RestoreNext]_vars

\* ------------------------------------------------------------------------
\* History calls, driven directly
\* ------------------------------------------------------------------------

HApply(name, arg, h, ret) ==
    /\ before' = hist
    /\ earlier' = [ name |-> call.name, ret |-> call.ret, h |-> before ]
    /\ hist' = h
    /\ call' = HCalled(name, arg, ret)
    /\ ord' = ord

\* History::push, called as documented: only when History::next is None
HPush ==
    /\ pushes < MaxPushes
    /\ History_next(hist).ret = None
    /\ \E value \in 0 .. MaxTracks - 1 :
          HApply("push", value, History_push(hist, value), None)
    /\ pushes' = pushes + 1
    /\ UNCHANGED << qvars, pvars >>

\* History::clear
HClear ==
    /\ HApply("clear", None, History_clear(hist), None)
    /\ UNCHANGED pushes
    /\ UNCHANGED << qvars, pvars >>

\* History::next
HNext ==
    /\ HApply("next", None, History_next(hist).h, History_next(hist).ret)
    /\ UNCHANGED pushes
    /\ UNCHANGED << qvars, pvars >>

\* History::prev
HPrev ==
    /\ ~ History_prev(hist).panic
    /\ HApply("prev", None, History_prev(hist).h, History_prev(hist).ret)
    /\ UNCHANGED pushes
    /\ UNCHANGED << qvars, pvars >>

HInit ==
    /\ HistoryInit
    /\ QueueInit
    /\ PlayerStart
    /\ q = Unwrap(Queue_with_state([ queue |-> None, track |-> None, shuffle |-> FALSE ]))

HNextStep ==
    \/ HPush
    \/ HClear
    \/ HNext
    \/ HPrev

SpecHistory == HInit /\ [][HNextStep]_vars

\* ------------------------------------------------------------------------
\* Tracks compared, as Track::directory's sort compares them
\* ------------------------------------------------------------------------

\* the tags of the files: a track number, and a title, an artist and an
\* album in either case, each of them present or not
Tags ==
    { Tag(track, title, artist, album) :
        track \in { -1, 1, 2 }, title \in { -1, 0, 1, 2 },
        artist \in { -1, 0, 3 }, album \in { -1, 1, 2 } }

\* the tags of files that have neither an artist nor an album
Untitled == { t \in Tags : t.artist = -1 /\ t.album = -1 }

\* Track::cmp of two Tracks, called both ways; a comparison does not depend
\* on the ones before it, so a run makes one
Compare ==
    /\ ord = NoOrder
    /\ \E a \in Tags, b \in Tags :
          ord' = [ name |-> "cmp", tracks |-> << a, b >>,
                   ret |-> << Track_cmp(a, b), Track_cmp(b, a) >> ]
    /\ UNCHANGED << hist, call, before, earlier, pushes >>
    /\ UNCHANGED << qvars, pvars >>

\* Track::cmp of the pairs of three Tracks
CompareThree ==
    /\ ord = NoOrder
    /\ \E a \in Untitled, b \in Untitled, c \in Untitled :
          ord' = [ name |-> "three", tracks |-> << a, b, c >>,
                   ret |-> << Track_cmp(a, b), Track_cmp(b, c), Track_cmp(a, c) >> ]
    /\ UNCHANGED << hist, call, before, earlier, pushes >>
    /\ UNCHANGED << qvars, pvars >>

OrderNext ==
    \/ Compare
    \/ CompareThree

\* no Queue operation, History call or key: only the comparison
OrderInit == HInit /\ hist = History_new

SpecOrder == OrderInit /\ [][OrderNext]_vars

\* ------------------------------------------------------------------------
\* the Player, the audio callback and the run loop
\* ------------------------------------------------------------------------

\* key presses handled after a start
MaxCalls == 2

\* audio callbacks begun after a start
MaxCallbacks == 4

\* key presses handled after a stall of the run loop
StallCalls == 1

\* audio callbacks begun after a stall of the run loop
StallCallbacks == 2

\* the directory that is played
Played == DirPath(3)

\* Process::process, the whole drain loop
RECURSIVE Drained(_, _)
Drained(e, rx) ==
    IF Len(rx) = 0 THEN e
    ELSE Drained(Process_message(e.p, e.tx, rx[1]), Tail(rx))

\* Player::update, the whole loop
RECURSIVE Updated(_, _)
Updated(pl, rx) ==
    IF Len(rx) = 0 THEN pl
    ELSE Updated(Player_update_message(pl, rx[1]), Tail(rx))

\* n audio callbacks on a stream that is ready, with nothing to drain
RECURSIVE Callbacks(_, _)
Callbacks(e, n) ==
    IF n = 0 THEN e
    ELSE IF n = 1
    THEN LET r == Process_render(e.p, e.tx, Process_silence([ i \in 1 .. DataLen |-> 0 ]), TRUE)
         IN  Engine(r.p, r.tx)
    ELSE LET half == Callbacks(e, n \div 2)
         IN  IF Len(half.tx) >= 0 THEN Callbacks(half, n - (n \div 2)) ELSE half

\* the whole program: Queue, Player, Process and the two ring buffers, where
\* the control thread is (pc) and the elapsed time of the persisted State
Program(queue, pl, p, rx, tx) ==
    [ q |-> queue, player |-> pl, proc |-> p, to_process |-> rx, to_main |-> tx,
      pc |-> "idle", at |-> None ]

\* the program inside Player::with_state: Player::new has started the audio
\* callback and Player::state has pushed the Volume message; with a current
\* track it goes on to revive it
Starting(track, elapsed) ==
    LET queue == Unwrap(Queue_with_state([ queue |-> Played, track |-> track,
                                           shuffle |-> FALSE ]))
        c == Player_state_volume(Player_new, << >>, 45, FALSE)
    IN  [ Program(queue, c.pl, Process_new, c.tx, << >>) EXCEPT
            !.pc = IF queue.current # None THEN "state" ELSE "idle",
            !.at = elapsed ]

\* the program after Queue::with_state and Player::with_state, when no
\* audio callback has begun before Player::with_state returned
Started(track, elapsed) ==
    LET queue == Unwrap(Queue_with_state([ queue |-> Played, track |-> track,
                                           shuffle |-> FALSE ]))
        c == Player_state(Player_new, << >>, queue, 45, FALSE, elapsed)
    IN  [ Program(queue, c.pl, Process_new, c.tx, << >>) EXCEPT !.at = elapsed ]

\* the program started on the long track and set playing, after a first
\* callback and a tick, and then n callbacks without a tick
Stalled(n) ==
    LET s0 == Started(TrackPath(3, 0), None)
        c == Player_toggle(s0.player, s0.to_process)
        first == Callbacks(Drained(Engine(s0.proc, s0.to_main), c.tx), 1)
        ticked == Updated(c.pl, first.tx)
        e == Callbacks(Engine(first.p, << >>), n)
    IN  Program(s0.q, ticked, e.p, << >>, e.tx)

\* the programs at a start, without a track and with a track to revive
Starts ==
    { Starting(track, elapsed) :
        track \in { None, TrackPath(3, 2) }, elapsed \in { None, Duration_from_secs(1) } }

\* the programs whose run loop has missed as many callbacks as the
\* engine -> control ring buffer holds messages
Stalls == { Stalled(FromProcessCap) }

\* the run starts from program m and remembers the elapsed time of the
\* persisted State
Begun(m, keys, audio) ==
    /\ q = m.q
    /\ player = m.player
    /\ proc = m.proc
    /\ to_process = m.to_process
    /\ to_main = m.to_main
    /\ sent = << >>
    /\ op = Called("with_state", m.at, "ok", "none", 0)
    /\ pre = q
    /\ prior = Remembered(op, pre)
    /\ picks = 0
    /\ seek = NoSeek
    /\ HistoryInit
    /\ hist = History_new
    /\ data = Process_silence([ i \in 1 .. DataLen |-> 0 ])
    /\ cb = [ Waiting(proc) EXCEPT !.enqueued = to_process ]
    /\ main = [ Looping(FALSE) EXCEPT !.pc = m.pc ]
    /\ calls = keys
    /\ callbacks = audio
    /\ step = NoStep
    /\ was = proc

\* the run starts from one of the programs
Running(programs, keys, audio) == \E m \in programs : Begun(m, keys, audio)

PlayerInit == Running(Starts, MaxCalls, MaxCallbacks)

StalledInit == Running(Starts \cup Stalls, StallCalls, StallCallbacks)

\* what the output buffer may hold when a callback begins
HostData == { [ i \in 1 .. DataLen |-> 0 ], [ i \in 1 .. DataLen |-> Stale ] }

\* the audio callback begins: Process::process is entered
ProcessBegin ==
    /\ cb.pc = "idle"
    /\ main.pc # "panic"
    /\ callbacks > 0
    /\ callbacks' = callbacks - 1
    /\ data' \in HostData
    /\ cb' = [ pc |-> "drain", pending |-> to_process, consumed |-> << >>,
               enqueued |-> << >>, start |-> proc ]
    /\ step' = [ NoStep EXCEPT !.name = "begin" ]
    /\ was' = proc
    /\ UNCHANGED << proc, to_process, to_main, player, main, calls >>
    /\ UNCHANGED << qvars, hvars >>

\* one turn of the drain loop: a message is popped and handled
ProcessPop ==
    /\ cb.pc = "drain"
    /\ Len(to_process) > 0
    /\ LET popped == Pop_message(to_process)
       IN  /\ to_process' = popped.rest
           /\ \E debug \in IF VolumeAsserted(popped.msg) THEN { FALSE } ELSE BOOLEAN :
                 LET e == IF debug THEN Engine(proc, to_main)
                          ELSE Process_message(proc, to_main, popped.msg)
                 IN  /\ proc' = e.p
                     /\ to_main' = e.tx
                     /\ cb' = [ cb EXCEPT !.consumed = Append(cb.consumed, popped.msg),
                                          !.pc = IF debug THEN "panic" ELSE "drain" ]
                     /\ step' = [ name |-> "message", msg |-> popped.msg, path |-> "none",
                                  full |-> (Len(to_main) >= FromProcessCap),
                                  reports |-> Added(to_main, e.tx) ]
    /\ was' = proc
    /\ UNCHANGED << data, player, main, calls, callbacks >>
    /\ UNCHANGED << qvars, hvars >>

\* the drain loop ends on an empty ring buffer and the audio is rendered
ProcessRender ==
    /\ cb.pc = "drain"
    /\ Len(to_process) = 0
    /\ \E ready \in BOOLEAN :
          LET r == Process_render(proc, to_main, data, ready)
          IN  /\ proc' = r.p
              /\ to_main' = r.tx
              /\ data' = r.data
              /\ step' = [ name |-> "render", msg |-> NoMessage, path |-> r.path,
                           full |-> (Len(to_main) >= FromProcessCap),
                           reports |-> Added(to_main, r.tx) ]
    /\ cb' = [ cb EXCEPT !.pc = "idle" ]
    /\ was' = proc
    /\ UNCHANGED << to_process, player, main, calls, callbacks >>
    /\ UNCHANGED << qvars, hvars >>

\* Player::state goes on after its first push: Player::revive of the
\* current track, after the wait for the stream
Revive ==
    /\ main.pc = "state"
    /\ LET c == Player_revive(player, to_process, q.tracks[q.current + 1],
                              State_start(op.arg))
       IN  /\ player' = c.pl
           /\ to_process' = c.tx
           /\ cb' = [ cb EXCEPT !.enqueued = cb.enqueued \o Added(to_process, c.tx) ]
           /\ main' = IF c.panic THEN [ main EXCEPT !.pc = "panic" ]
                      ELSE [ main EXCEPT !.pc = "idle" ]
    /\ UNCHANGED << proc, data, to_main, calls, callbacks, step, was >>
    /\ UNCHANGED << qvars, hvars >>

\* the control thread may handle a key
Handling == main.pc = "idle" /\ calls > 0

\* a call of the Player from a key handler
Handle(c, skip_done) ==
    /\ player' = c.pl
    /\ to_process' = c.tx
    /\ main' = IF c.panic THEN [ main EXCEPT !.pc = "panic" ]
               ELSE [ main EXCEPT !.skip_done = skip_done ]
    /\ calls' = calls - 1
    /\ cb' = [ cb EXCEPT !.enqueued = cb.enqueued \o Added(to_process, c.tx) ]
    /\ UNCHANGED << proc, data, to_main, callbacks, step, was >>
    /\ UNCHANGED hvars

\* Player::toggle
Toggle ==
    /\ Handling
    /\ Handle(Player_toggle(player, to_process), main.skip_done)
    /\ UNCHANGED qvars

\* Player::mute
Mute ==
    /\ Handling
    /\ Handle(Player_mute(player, to_process), main.skip_done)
    /\ UNCHANGED qvars

\* positions a key handler seeks to
Positions == { 0, 1 }

\* Player::seek
Seek ==
    /\ Handling
    /\ \E position \in Positions :
          Handle(Player_seek(player, to_process, position), main.skip_done)
    /\ UNCHANGED qvars

\* the outcome of a Queue method when the Playable::replace it calls has
\* panicked: Queue::replace is left before it sets current
Unwound(out, queue, c) ==
    IF c.panic THEN [ out EXCEPT !.q.current = queue.current ] ELSE out

\* the key that calls Queue::next
PlayNext ==
    /\ Handling
    /\ \E draw \in (IF UsesRandom(q) THEN ShuffleDraws(q) ELSE { None }) :
          LET out == Queue_next(q, draw)
              c == Replaced(Control(player, to_process, FALSE), out.sent)
          IN  /\ Apply("next", draw, Unwound(out, q, c), IF UsesRandom(q) THEN 1 ELSE 0)
              /\ Handle(c, TRUE)

\* the tick begins: State::tick calls Player::update
TickBegin ==
    /\ main.pc = "idle"
    /\ main' = [ main EXCEPT !.pc = "update" ]
    /\ UNCHANGED << proc, data, cb, to_process, to_main, player, calls, callbacks,
                    step, was >>
    /\ UNCHANGED << qvars, hvars >>

\* one turn of the loop of Player::update
UpdatePop ==
    /\ main.pc = "update"
    /\ Len(to_main) > 0
    /\ player' = Player_update_message(player, Head(to_main))
    /\ to_main' = Tail(to_main)
    /\ UNCHANGED << proc, data, cb, to_process, main, calls, callbacks, step, was >>
    /\ UNCHANGED << qvars, hvars >>

\* Queue::done
Queue_done(queue, pl, draw) ==
    IF Player_done(pl) THEN Queue_next(queue, draw)
    ELSE Outcome(queue, << >>, "ok", "none")

\* Player::update ends on an empty ring buffer.  The run loop then skips
\* Queue::done when skip_done is set; Queue::done returns at once when the
\* Player is not done; otherwise it goes on to call next()
TickEnd ==
    /\ main.pc = "update"
    /\ Len(to_main) = 0
    /\ IF main.skip_done
       THEN /\ main' = Looping(FALSE)
            /\ UNCHANGED qvars
       ELSE IF Player_done(player)
       THEN /\ main' = [ main EXCEPT !.pc = "done" ]
            /\ UNCHANGED qvars
       ELSE /\ Apply("done", None, Queue_done(q, player, None), 0)
            /\ main' = Looping(FALSE)
    /\ UNCHANGED << proc, data, cb, to_process, to_main, player, calls, callbacks,
                    step, was >>
    /\ UNCHANGED hvars

\* Queue::done of a Player that is done: next() and the push of
\* Player::replace, after the wait for the new stream
QueueDone ==
    /\ main.pc = "done"
    /\ \E draw \in (IF UsesRandom(q) THEN ShuffleDraws(q) ELSE { None }) :
          LET out == Queue_done(q, player, draw)
              c == Replaced(Control(player, to_process, FALSE), out.sent)
          IN  /\ Apply("done", draw, Unwound(out, q, c), IF UsesRandom(q) THEN 1 ELSE 0)
              /\ player' = c.pl
              /\ to_process' = c.tx
              /\ cb' = [ cb EXCEPT !.enqueued = cb.enqueued \o Added(to_process, c.tx) ]
              /\ main' = IF c.panic THEN [ main EXCEPT !.pc = "panic" ]
                         ELSE Looping(FALSE)
    /\ UNCHANGED << proc, data, to_main, calls, callbacks, step, was >>
    /\ UNCHANGED hvars

PlayerNext ==
    \/ Revive
    \/ ProcessBegin
    \/ ProcessPop
    \/ ProcessRender
    \/ Toggle
    \/ Mute
    \/ Seek
    \/ PlayNext
    \/ TickBegin
    \/ UpdatePop
    \/ TickEnd
    \/ QueueDone

SpecPlayer == PlayerInit /\ [][PlayerNext]_vars

\* the run loop after a stall: the keys that skip and seek, the audio
\* callback and the tick
StalledNext ==
    \/ Revive
    \/ ProcessBegin
    \/ ProcessPop
    \/ ProcessRender
    \/ Seek
    \/ PlayNext
    \/ TickBegin
    \/ UpdatePop
    \/ TickEnd
    \/ QueueDone

SpecStalled == StalledInit /\ [][StalledNext]_vars

\* ------------------------------------------------------------------------
\* the transport keys: toggle, pause and play, skip
\* ------------------------------------------------------------------------

\* key presses handled in the runs of one group of keys
KeyCalls == 2

\* audio callbacks begun in the runs of one group of keys
KeyCallbacks == 2

\* PlaybackStatus
PlaybackStatus == { "Paused", "Play" }

\* Player::pause, called for the Pause and Play commands
Pause ==
    /\ Handling
    /\ \E status \in PlaybackStatus :
          Handle(Player_pause(player, to_process, status), main.skip_done)
    /\ UNCHANGED qvars

\* the programs at a start without a track and with each track of the
\* directory to revive, the short one also at its end
Revived ==
    { Starting(track, None) : track \in { None } \cup { TrackPath(3, i) : i \in 0 .. 2 } }
        \cup { Starting(TrackPath(3, 2), Duration_from_secs(1)) }

StatusInit == Running(Revived, KeyCalls, KeyCallbacks)

StatusNext ==
    \/ Revive
    \/ ProcessBegin
    \/ ProcessPop
    \/ ProcessRender
    \/ Toggle
    \/ Pause
    \/ PlayNext
    \/ TickBegin
    \/ UpdatePop
    \/ TickEnd
    \/ QueueDone

SpecStatus == StatusInit /\ [][StatusNext]_vars

\* ------------------------------------------------------------------------
\* the volume keys: mute, volume up and down, the volume property
\* ------------------------------------------------------------------------

\* the volume of a persisted State, a u8 that is loaded as it is
PersistedVolumes == { 0, 45, 100, 200 }

\* the amount of the configuration, a u8
Vols == { 5, 255 }

\* f64::NAN as a value of the Volume property
NaN == 0 - 1000000

\* the Volume property as it is set over D-Bus, in 1/100000
MprisVolumes == { NaN, 0 - 50000, 990, 2990, 60000, 99995, 250000 }

\* the percents k for which the f64 product (k.99 / 100.0) * 100.0 is
\* above k.99, so that its fract() is above 0.99
RoundsAbove ==
    { 0, 1, 4, 5, 6, 7, 8, 9, 10, 11, 13, 14, 17, 18, 20, 21, 23, 24, 25, 30, 31, 32,
      34, 35, 36, 37, 38, 40, 41, 42, 43, 44, 47, 48, 49, 50, 51, 52, 53, 54, 59, 60,
      61, 62, 63, 64, 65, 66, 75, 76, 77, 78, 79, 88, 89, 90, 91 }

\* MprisPlayer::set_volume: the volume of the event it sends, in percent;
\* None when it returns without sending one
MprisPlayer_set_volume(vol) ==
    IF vol = NaN THEN None
    ELSE LET clamped == IF vol < 0 THEN 0 ELSE IF vol > 100000 THEN 100000 ELSE vol
             percent == clamped \div 1000
             fract == clamped % 1000
         IN  IF fract > 990 \/ (fract = 990 /\ percent \in RoundsAbove)
             THEN percent + 1
             ELSE percent

\* the program started from a persisted State without a track
Restored(volume, muted) ==
    LET queue == Unwrap(Queue_with_state([ queue |-> Played, track |-> None,
                                           shuffle |-> FALSE ]))
        c == Player_state(Player_new, << >>, queue, volume, muted, None)
    IN  Program(queue, c.pl, Process_new, c.tx, << >>)

Restores == { Restored(volume, muted) : volume \in PersistedVolumes, muted \in BOOLEAN }

VolumeInit == Running(Restores, KeyCalls, KeyCallbacks)

\* Player::i_vol
IVol ==
    /\ Handling
    /\ \E amt \in Vols : Handle(Player_i_vol(player, to_process, amt), main.skip_done)
    /\ UNCHANGED qvars

\* Player::d_vol
DVol ==
    /\ Handling
    /\ \E amt \in Vols : Handle(Player_d_vol(player, to_process, amt), main.skip_done)
    /\ UNCHANGED qvars

\* Player::set_volume with the volume of an MprisEvent::Volume
SetVolume ==
    /\ Handling
    /\ \E vol \in MprisVolumes :
          /\ MprisPlayer_set_volume(vol) # None
          /\ Handle(Player_set_volume(player, to_process, MprisPlayer_set_volume(vol)),
                    main.skip_done)
    /\ UNCHANGED qvars

VolumeNext ==
    \/ ProcessBegin
    \/ ProcessPop
    \/ ProcessRender
    \/ Mute
    \/ IVol
    \/ DVol
    \/ SetVolume

SpecVolume == VolumeInit /\ [][VolumeNext]_vars

\* ------------------------------------------------------------------------
\* keys pressed while the audio callback does not run
\* ------------------------------------------------------------------------

\* n calls of Player::toggle, one after the other
RECURSIVE Toggled(_, _)
Toggled(c, n) ==
    IF n = 0 THEN c
    ELSE IF n = 1 THEN Player_toggle(c.pl, c.tx)
    ELSE LET half == Toggled(c, n \div 2)
         IN  IF Len(half.tx) >= 0 THEN Toggled(half, n - (n \div 2)) ELSE half

\* the program started on a track and the play key then pressed, with no
\* callback in between, until the ring buffer to the engine is full but for
\* room messages
Flooded(track, room) ==
    LET s0 == Started(track, None)
        c == Toggled(Control(s0.player, s0.to_process, FALSE),
                     ToProcessCap - room - Len(s0.to_process))
    IN  Program(s0.q, c.pl, s0.proc, c.tx, s0.to_main)

Floods == { Flooded(TrackPath(3, 2), room) : room \in 0 .. 1 }

FullInit == Running(Floods, StallCalls, StallCallbacks)

FullNext ==
    \/ ProcessBegin
    \/ ProcessPop
    \/ ProcessRender
    \/ Toggle
    \/ Mute
    \/ Seek
    \/ PlayNext
    \/ TickBegin
    \/ UpdatePop
    \/ TickEnd
    \/ QueueDone

SpecFull == FullInit /\ [][FullNext]_vars

\* ------------------------------------------------------------------------
\* the audio callback when the disk stream fails
\* ------------------------------------------------------------------------

\* one turn of the drain loop with a SeekTo whose ReadDiskStream::seek
\* returns an error: the unwrap panics inside the callback
SeekFails ==
    /\ cb.pc = "drain"
    /\ Len(to_process) > 0
    /\ LET popped == Pop_message(to_process)
       IN  /\ Process_seeks(proc, popped.msg)
           /\ to_process' = popped.rest
           /\ cb' = [ cb EXCEPT !.consumed = Append(cb.consumed, popped.msg),
                                 !.pc = "panic" ]
           /\ step' = [ name |-> "message", msg |-> popped.msg, path |-> "seek error",
                        full |-> (Len(to_main) >= FromProcessCap), reports |-> << >> ]
    /\ was' = proc
    /\ UNCHANGED << proc, data, to_main, player, main, calls, callbacks >>
    /\ UNCHANGED << qvars, hvars >>

\* the rendering part with a ReadDiskStream::read that returns an error other
\* than EndOfFile: the unwrap panics inside the callback, data is left as the
\* host passed it
ReadFails ==
    /\ cb.pc = "drain"
    /\ Len(to_process) = 0
    /\ Process_reads(proc, data, TRUE)
    /\ cb' = [ cb EXCEPT !.pc = "panic" ]
    /\ step' = [ name |-> "render", msg |-> NoMessage, path |-> "read error",
                 full |-> (Len(to_main) >= FromProcessCap), reports |-> << >> ]
    /\ was' = proc
    /\ UNCHANGED << proc, data, to_process, to_main, player, main, calls, callbacks >>
    /\ UNCHANGED << qvars, hvars >>

\* the programs at a start on the directory whose file does not decode,
\* without a track and with that file to revive
Damaged ==
    { LET queue == Unwrap(Queue_with_state([ queue |-> DamagedPath, track |-> track,
                                             shuffle |-> FALSE ]))
      IN  [ Starting(None, None) EXCEPT
              !.q = queue,
              !.pc = IF queue.current # None THEN "state" ELSE "idle" ] :
      track \in { None, DamagedTrack } }

FaultyInit == Running(Starts \cup Damaged, KeyCalls, KeyCallbacks)

FaultyNext ==
    \/ Revive
    \/ PlayNext
    \/ ProcessBegin
    \/ ProcessPop
    \/ ProcessRender
    \/ SeekFails
    \/ ReadFails
    \/ Toggle
    \/ Seek

SpecFaulty == FaultyInit /\ [][FaultyNext]_vars

\* ------------------------------------------------------------------------
\* loading a track: revive at the start, replace afterwards
\* ------------------------------------------------------------------------

\* the elapsed time of a persisted State: none, or whole seconds
PersistedElapsed == { None } \cup { Duration_from_secs(secs) : secs \in 0 .. 1 }

LoadInit ==
    \E track \in { None } \cup { TrackPath(3, i) : i \in 0 .. 2 }, at \in PersistedElapsed :
        Begun(Starting(track, at), KeyCalls, KeyCallbacks)

LoadNext ==
    \/ Revive
    \/ ProcessBegin
    \/ ProcessPop
    \/ ProcessRender
    \/ Toggle
    \/ PlayNext
    \/ TickBegin
    \/ UpdatePop
    \/ TickEnd
    \/ QueueDone

SpecLoad == LoadInit /\ [][LoadNext]_vars

\* ------------------------------------------------------------------------
\* properties of the Queue (specification Spec)
\* ------------------------------------------------------------------------

Selects == { "select_idx", "select_path" }

\* the entry of a History at 0-based position i
Entry(h, i) == h.queue[i + 1]

\* C1: with shuffle off and a non-empty track list of length L, next()
\* makes the index after the current one (mod L) current, and index 0 when
\* no track is current; a run of next() calls therefore has period L.
C1_SequentialNext ==
    (op.name = "next" /\ ~ pre.shuffle /\ Len(pre.tracks) > 0) =>
        /\ op.result = "ok"
        /\ q.current = IF pre.current = None THEN 0
                       ELSE (pre.current + 1) % Len(pre.tracks)

\* a sequential next() has wrapped from the last index to index 0
C1_Witness ==
    /\ op.name = "next" /\ ~ pre.shuffle
    /\ Len(pre.tracks) > 1
    /\ pre.current = Len(pre.tracks) - 1
    /\ q.current = 0

\* C2: with shuffle on and more than one track, next() never leaves the
\* current index what it was before the call.
C2_ShuffleNeverRepeats ==
    (op.name = "next" /\ pre.shuffle /\ Len(pre.tracks) > 1) =>
        /\ q.current # None
        /\ q.current # pre.current

\* a shuffled next() has drawn a fresh index while a track was current
C2_Witness ==
    /\ op.name = "next" /\ pre.shuffle /\ op.via = "shuffle"
    /\ Len(pre.tracks) > 1
    /\ pre.current # None
    /\ op.draws = 1

\* C3: when last() changed the current track from X to Y, the next() that
\* follows immediately makes X current again, draws nothing at random and
\* leaves the stored history entries as they were.
C3_LastThenNext ==
    (op.name = "next" /\ prior.name = "last" /\ prior.current # pre.current) =>
        /\ q.current = prior.current
        /\ q.history.queue = pre.history.queue
        /\ op.draws = 0

\* shuffle on: last() went back in the history, next() replayed the entry
C3_Witness ==
    /\ op.name = "next" /\ prior.name = "last"
    /\ prior.current # pre.current
    /\ q.shuffle
    /\ op.via = "history"
    /\ q.current = prior.current

\* C4: last() (1) moves the history cursor back and selects that entry when
\* the cursor has a predecessor; (2) otherwise, with shuffle off and a
\* current track, selects (current - 1) mod len; (3) otherwise changes
\* nothing and hands nothing to the player.
C4_LastResolution ==
    (op.name = "last") =>
        /\ op.result = "ok"
        /\ IF pre.history.index > 0
           THEN /\ q.history.index = pre.history.index - 1
                /\ q.history.queue = pre.history.queue
                /\ q.current = Entry(pre.history, pre.history.index - 1)
                /\ sent = << q.tracks[q.current + 1] >>
           ELSE IF ~ pre.shuffle /\ pre.current # None
           THEN /\ q.current = (pre.current + Len(pre.tracks) - 1) % Len(pre.tracks)
                /\ q.history = pre.history
                /\ sent = << q.tracks[q.current + 1] >>
           ELSE /\ q = pre
                /\ sent = << >>
        /\ q.tracks = pre.tracks /\ q.shuffle = pre.shuffle /\ q.path = pre.path

\* a sequential last() has wrapped from index 0 to the last index
C4_Witness ==
    /\ op.name = "last" /\ ~ pre.shuffle
    /\ pre.history.index = 0
    /\ pre.current = 0
    /\ Len(pre.tracks) > 1
    /\ q.current = Len(pre.tracks) - 1

\* C5: a successful select_idx or select_path leaves the history empty with
\* cursor 0 and the selected index current; the next() that follows does
\* not select by replaying the history.
C5_SelectClearsHistory ==
    /\ (op.name \in Selects /\ op.result = "ok") =>
          /\ q.history = [ queue |-> << >>, index |-> 0 ]
          /\ q.current # None
          /\ op.name = "select_idx" => q.current = op.arg
          /\ op.name = "select_path" => q.tracks[q.current + 1] = op.arg
    /\ (op.name = "next" /\ prior.name = "select") => op.via # "history"

\* a selection was made while the history had forward entries
C5_Witness ==
    /\ op.name \in Selects /\ op.result = "ok"
    /\ Len(pre.history.queue) > 1
    /\ pre.history.index + 1 < Len(pre.history.queue)
    /\ Len(q.history.queue) = 0

\* C8: the history holds at most 100 entries and its cursor is a stored
\* position, or the history is empty with cursor 0; History::prev never
\* indexes outside the stored entries.
C8_HistoryBounded ==
    /\ Len(q.history.queue) <= HistoryCap
    /\ \/ q.history.index < Len(q.history.queue)
       \/ Len(q.history.queue) = 0 /\ q.history.index = 0
    /\ q.history.index >= 0
    /\ ~ History_prev(q.history).panic
    /\ op.result # "panic"

\* a shuffled next() pushed onto a full history
C8_Witness ==
    /\ op.name = "next" /\ op.via = "shuffle"
    /\ Len(pre.history.queue) = HistoryCap
    /\ Len(q.history.queue) = HistoryCap
    /\ q.history.queue # pre.history.queue

\* C9: current, when Some, and every index stored in the history are below
\* tracks.len(), so Queue::track and Queue::replace never index out of range.
C9_IndicesInRange ==
    /\ q.current = None \/ (q.current >= 0 /\ q.current < Len(q.tracks))
    /\ \A i \in 1 .. Len(q.history.queue) :
          q.history.queue[i] >= 0 /\ q.history.queue[i] < Len(q.tracks)
    /\ op.result # "panic"

\* queue() replaced the track list by a shorter one while a track past its
\* end was current and stored in the history
C9_Witness ==
    /\ op.name = "queue" /\ op.result = "ok"
    /\ pre.current # None
    /\ pre.current >= Len(q.tracks)
    /\ \E i \in 1 .. Len(pre.history.queue) : pre.history.queue[i] >= Len(q.tracks)

\* C10: whenever the history is non-empty, the entry under its cursor is
\* the index of the current track, with shuffle on and off.
C10_CursorIsCurrent ==
    Len(q.history.queue) > 0 =>
        /\ q.history.index < Len(q.history.queue)
        /\ Entry(q.history, q.history.index) = q.current

\* ------------------------------------------------------------------------
\* properties of the History (specification SpecHistory)
\* ------------------------------------------------------------------------

\* C6: after a successful prev(), next() succeeds, returns the entry the
\* cursor pointed at before the prev() and restores the cursor; after a
\* successful next(), prev() succeeds and restores the cursor; neither
\* changes the stored entries.
C6_RoundTrip ==
    /\ (call.name = "next" /\ earlier.name = "prev" /\ earlier.ret # None) =>
          /\ call.ret # None
          /\ call.ret = Entry(earlier.h, earlier.h.index)
          /\ hist.index = earlier.h.index
          /\ hist.queue = earlier.h.queue
    /\ (call.name = "prev" /\ earlier.name = "next" /\ earlier.ret # None) =>
          /\ call.ret # None
          /\ call.ret = Entry(earlier.h, earlier.h.index)
          /\ hist.index = earlier.h.index
          /\ hist.queue = earlier.h.queue
    /\ call.name \in { "next", "prev" } => hist.queue = before.queue

\* prev() then next() on a full history, between entries that differ
C6_Witness ==
    /\ call.name = "next" /\ earlier.name = "prev" /\ earlier.ret # None
    /\ Len(hist.queue) = HistoryCap
    /\ call.ret # earlier.ret

\* C7: push(i) changes nothing when i is the last stored entry; otherwise
\* it removes the oldest entry if the history is full, keeps the order of
\* the others, appends i and moves the cursor to it.
C7_Push ==
    (call.name = "push") =>
        LET old == before.queue
            shift == IF Len(old) = HistoryCap THEN 1 ELSE 0
        IN  IF Len(old) > 0 /\ old[Len(old)] = call.arg
            THEN hist = before
            ELSE /\ Len(hist.queue) = Len(old) + 1 - shift
                 /\ hist.queue[Len(hist.queue)] = call.arg
                 /\ \A i \in 1 .. Len(hist.queue) - 1 : hist.queue[i] = old[i + shift]
                 /\ hist.index = Len(hist.queue) - 1

\* a push onto a full history evicted the oldest entry
C7_Witness ==
    /\ call.name = "push"
    /\ Len(before.queue) = HistoryCap
    /\ before.queue[HistoryCap] # call.arg
    /\ Len(hist.queue) = HistoryCap
    /\ hist.queue[1] = before.queue[2]

\* next() chose by the sequential rule or by the shuffle rule
FreshChoices == { "sequential", "shuffle" }

\* the index is the last entry of the history and the cursor is on it
LastAndCursor(h, index) ==
    /\ Len(h.queue) > 0
    /\ h.queue[Len(h.queue)] = index
    /\ h.index = Len(h.queue) - 1

\* C11 as stated: whenever next() selects a track by the sequential rule
\* or by the shuffle rule, the selected index is afterwards the last history
\* entry and the cursor points at it.
C11_PushedBeforePlay ==
    (op.name = "next" /\ op.via \in FreshChoices) =>
        LastAndCursor(q.history, q.current)

\* C11: a next() that selects by the shuffle rule leaves the selected index
\* as the last history entry with the cursor on it, and keeps the earlier
\* entries (all but the oldest of a full history) in order; a next() that
\* selects by the sequential rule leaves the history as it was.
C11_ShufflePushes ==
    /\ (op.name = "next" /\ op.via = "shuffle") =>
          /\ LastAndCursor(q.history, q.current)
          /\ q.history = History_push(pre.history, q.current)
          /\ sent = << q.tracks[q.current + 1] >>
    /\ (op.name = "next" /\ op.via = "sequential") =>
          q.history = pre.history

\* a shuffled next() has appended a fresh index to a history that held
\* entries, and a sequential next() has run on another path
C11_Witness ==
    /\ op.name = "next" /\ op.via = "shuffle"
    /\ Len(pre.history.queue) > 0
    /\ Len(q.history.queue) = Len(pre.history.queue) + 1
    /\ q.history.queue[Len(q.history.queue)] = q.current

\* the error outcomes of the Queue operations
Failures == { "OutOfBounds", "NoTrack", "NotADirectory", "IoError" }

\* C12: select_idx(i) fails with OutOfBounds exactly when i is not below
\* the number of tracks, select_path(p) with NoTrack exactly when p is not
\* among the tracks, queue(path) with NotADirectory exactly when path is
\* not a directory; a failed operation, also a queue(path) on a directory
\* that cannot be read, leaves path, tracks, current, history and shuffle
\* as they were and sends nothing to the player.
C12_FailuresChangeNothing ==
    /\ op.name = "select_idx" =>
          (op.result = "OutOfBounds" <=> op.arg >= Len(pre.tracks))
    /\ op.name = "select_path" =>
          (op.result = "NoTrack" <=> Position(pre.tracks, op.arg) = None)
    /\ op.name = "queue" =>
          (op.result = "NotADirectory" <=> ~ IsDir(op.arg))
    /\ op.result \in Failures => (q = pre /\ sent = << >>)

\* queue(path) has failed on a Queue with a current track and a history
C12_Witness ==
    /\ op.name = "queue" /\ op.result = "NotADirectory"
    /\ pre.current # None
    /\ Len(pre.history.queue) > 0
    /\ q = pre

\* C13: next() on a Queue whose track list is empty fails with NoTracks.
C13_NextOnEmptyFails ==
    (op.name = "next" /\ Len(pre.tracks) = 0) => op.result = "NoTracks"

\* C14: seek_i with a current track and known elapsed time and duration
\* advances the queue as next() does and hands no position to the player
\* when the amount reaches the rest of the track; otherwise it hands over
\* exactly elapsed + amt and leaves the Queue unchanged; it never hands
\* over a position at or past the duration, and without a current track
\* (or without elapsed time and duration) it does nothing.
C14_SeekForward ==
    op.name = "seek_i" =>
        IF pre.current # None /\ seek.elapsed # None /\ seek.duration # None
        THEN IF seek.amt >= seek.duration - seek.elapsed
             THEN /\ seek.sought = << >>
                  /\ q = Queue_next(pre, op.arg).q
                  /\ sent = Queue_next(pre, op.arg).sent
             ELSE /\ seek.sought = << seek.elapsed + seek.amt >>
                  /\ seek.elapsed + seek.amt < seek.duration
                  /\ q = pre /\ sent = << >>
        ELSE q = pre /\ sent = << >> /\ seek.sought = << >>

\* seek_i has landed exactly on the end of the track and moved on
C14_Witness ==
    /\ op.name = "seek_i"
    /\ pre.current # None
    /\ seek.elapsed # None /\ seek.duration # None
    /\ seek.amt = seek.duration - seek.elapsed
    /\ seek.sought = << >>
    /\ Len(sent) = 1
    /\ q.current # pre.current

\* every sample of an output buffer is 0
Silent(d) == \A i \in 1 .. Len(d) : d[i] = 0

\* the messages that leave the stream in place
Commands == { "Status", "Volume", "SeekTo" }

\* C15: the callback that hits the end of the file sets done and puts out
\* silence; while done is set every callback puts out only silence and
\* leaves stream and buffer as they are, whatever Status, Volume or SeekTo
\* message arrives; done is cleared by a UseStream message only; the end
\* of the file, and with it IsDone, is reported only by a callback that
\* began its rendering with done unset, so once for a stream.
C15_DoneIsSilent ==
    /\ step.path = "eof" =>
          /\ ~ was.done /\ proc.done /\ Silent(data)
          /\ step.reports \in { << >>, << IsDone >> }
    /\ (step.name = "render" /\ was.done) =>
          /\ step.path = "done"
          /\ Silent(data)
          /\ proc = was
          /\ step.reports = << >>
    /\ (step.name = "message" /\ step.msg.type \in Commands /\ was.done) =>
          /\ proc.done
          /\ IsDone \notin { step.reports[i] : i \in 1 .. Len(step.reports) }
    /\ (was.done /\ ~ proc.done) =>
          (step.name = "message" /\ step.msg.type = "UseStream")

\* a finished engine that is told to play has drained a message and
\* rendered silence over what the output buffer held
C15_Witness ==
    /\ step.name = "render" /\ step.path = "done"
    /\ cb.start.done
    /\ Len(cb.consumed) > 0
    /\ proc.status = "Play"
    /\ Silent(data)

\* C17: when a callback returns that found the engine without a stream, or
\* done, or paused, every sample of data is 0.
C17_SilentWhenIdle ==
    (step.name = "render"
        /\ (Len(was.stream) = 0 \/ was.done \/ was.status = "Paused")) =>
        Silent(data)

\* the position of the last message of some types in a sequence, 0 when
\* there is none
RECURSIVE LastOf(_, _)
LastOf(msgs, types) ==
    IF Len(msgs) = 0 THEN 0
    ELSE IF msgs[Len(msgs)].type \in types THEN Len(msgs)
    ELSE LastOf(SubSeq(msgs, 1, Len(msgs) - 1), types)

\* C18: the messages a callback has consumed, followed by those still in
\* the control -> engine ring buffer, are the messages that were waiting
\* when it began followed by those the Player has enqueued since, in that
\* order and each once; when the callback renders it has consumed all that
\* were waiting, and the Process is then what handling the consumed
\* messages one by one makes of the Process it began with: its status is
\* that of the last Status or UseStream, its volume that of the last
\* Volume, its stream that of the last UseStream.
C18_DrainInOrder ==
    /\ cb.consumed \o to_process = cb.pending \o cb.enqueued
    /\ step.name = "render" =>
          LET s == LastOf(cb.consumed, { "Status", "UseStream" })
              v == LastOf(cb.consumed, { "Volume" })
              u == LastOf(cb.consumed, { "UseStream" })
          IN  /\ Len(cb.consumed) >= Len(cb.pending)
              /\ SubSeq(cb.consumed, 1, Len(cb.pending)) = cb.pending
              /\ was = Drained(Engine(cb.start, << >>), cb.consumed).p
              /\ was.status = IF s = 0 THEN cb.start.status ELSE cb.consumed[s].status
              /\ was.volume = IF v = 0 THEN cb.start.volume ELSE cb.consumed[v].value
              /\ IF u = 0 THEN Len(was.stream) = Len(cb.start.stream)
                 ELSE was.stream[1].id = cb.consumed[u].stream[1].id

\* a callback has rendered after it drained two Status messages that
\* differ, one of them enqueued after it began
C18_Witness ==
    /\ step.name = "render"
    /\ Len(cb.consumed) > Len(cb.pending)
    /\ \E i, j \in 1 .. Len(cb.consumed) :
          /\ i < j
          /\ cb.consumed[i].type \in { "Status", "UseStream" }
          /\ cb.consumed[j].type = "Status"
          /\ cb.consumed[i].status # cb.consumed[j].status
          /\ was.status = cb.consumed[j].status

\* a UseStream message is in a ring buffer
Swapping(channel) == \E i \in 1 .. Len(channel) : channel[i].type = "UseStream"

\* IsDone is in a ring buffer
Reported(channel) == \E i \in 1 .. Len(channel) : channel[i] = IsDone

\* C16: when the engine has hit the end of the file of its stream and the
\* queue is not empty, the end is on its way to the queue: IsDone is in
\* the engine -> control ring buffer, or the Player has taken it and
\* Player::done() is true, or a UseStream is already on its way to the
\* engine; this in every state of the engine -> control ring buffer at the
\* end of the file.
C16_EndReachesQueue ==
    (proc.done /\ Len(q.tracks) > 0 /\ main.pc # "panic") =>
        \/ Reported(to_main)
        \/ Player_done(player)
        \/ Swapping(to_process)

\* the end of the file is known to the engine alone
Lost ==
    /\ proc.done
    /\ ~ Reported(to_main)
    /\ ~ Player_done(player)
    /\ ~ Swapping(to_process)

\* once the end of the file is known to the engine alone it stays so
\* through every callback and every tick, until a key is pressed
LostStaysLost == [][(Lost /\ calls' = calls) => Lost']_vars

\* the stream of a message and the report of its position
Reporting(msg) == << Playhead(Process_playhead(msg.stream[1])) >>

\* a UseStream message was handled
Swapped == step.name = "message" /\ step.msg.type = "UseStream"

\* what every UseStream leaves behind except the report
SwappedIn ==
    /\ proc.stream = step.msg.stream
    /\ Len(proc.stream) = 1
    /\ proc.buffer = << >>
    /\ ~ proc.done
    /\ proc.status = step.msg.status
    /\ proc.volume = was.volume

\* a callback that has handled a UseStream with status Play renders
\* audio, or hits the end of the file, when the stream is ready
Resumes ==
    (step.name = "render"
        /\ LastOf(cb.consumed, { "UseStream" }) > 0
        /\ was.status = "Play") =>
        step.path \in { "audio", "eof", "unready" }

\* C19 as stated: after a UseStream the stream is the new one and the
\* only one, the buffer is empty, done is false, the status is that of the
\* message, and a Playhead with the initial position of the new stream has
\* been pushed; audio resumes after a UseStream with status Play.
C19_UseStream ==
    /\ Swapped => (SwappedIn /\ step.reports = Reporting(step.msg))
    /\ Resumes

\* C19: as above, but the Playhead with the initial position has been
\* pushed exactly when the engine -> control ring buffer was not full;
\* when it was full nothing is pushed and the report is lost.
C19_UseStreamUnlessFull ==
    /\ Swapped =>
          /\ SwappedIn
          /\ step.reports = IF step.full THEN << >> ELSE Reporting(step.msg)
    /\ Resumes

\* a UseStream was handled in the middle of a buffer, with room for the
\* report
C19_Witness ==
    /\ Swapped
    /\ Len(was.buffer) > 0
    /\ Len(was.stream) = 1
    /\ was.stream # proc.stream
    /\ ~ step.full
    /\ step.reports = Reporting(step.msg)

\* a SeekTo message was handled
Sought_ == step.name = "message" /\ step.msg.type = "SeekTo"

\* what every SeekTo leaves behind except the report
SoughtIn ==
    IF Len(was.stream) = 1
    THEN /\ proc = [ was EXCEPT
                       !.stream = Some([ was.stream[1] EXCEPT
                           !.playhead = Frame(step.msg.value, was.stream[1].rate) ]),
                       !.buffer = << >> ]
         /\ LET u == LastOf(SubSeq(cb.consumed, 1, Len(cb.consumed) - 1), { "UseStream" })
            IN  u > 0 => proc.stream[1].id = cb.consumed[u].stream[1].id
    ELSE proc = was /\ step.reports = << >>

\* C20 as stated: SeekTo(t) with a stream seeks it, empties the buffer and
\* pushes Playhead(t), leaving status, gain and done; without a stream it
\* is ignored; after a UseStream it applies to the new stream.
C20_SeekTo ==
    Sought_ =>
        /\ SoughtIn
        /\ Len(was.stream) = 1 => step.reports = << Playhead(step.msg.value) >>

\* C20: as above, but Playhead(t) has been pushed exactly when the
\* engine -> control ring buffer was not full; when it was full the seek
\* happens and its report is lost.
C20_SeekToUnlessFull ==
    Sought_ =>
        /\ SoughtIn
        /\ Len(was.stream) = 1 =>
              step.reports = IF step.full THEN << >> ELSE << Playhead(step.msg.value) >>

\* a SeekTo was handled in the middle of a buffer, with room for the report
C20_Witness ==
    /\ Sought_
    /\ Len(was.stream) = 1
    /\ Len(was.buffer) > 0
    /\ proc.buffer = << >>
    /\ ~ step.full
    /\ step.reports = << Playhead(step.msg.value) >>

\* ------------------------------------------------------------------------
\* properties of the transport keys (specification SpecStatus)
\* ------------------------------------------------------------------------

\* a toggle inverts the status the Player keeps and sends exactly that status
ToggleInverts ==
    Toggle => /\ player'.status = Invert(player.status)
              /\ to_process' = Append(to_process, Status(player'.status))

\* a pause sends the status it stores
PauseSends ==
    Pause => to_process' = Append(to_process, Status(player'.status))

\* C21: the status is always Paused or Play, in the Player and in the engine;
\* toggle inverts the Player's status and sends it, pause stores and sends the
\* status it is given; with no send dropped, the engine's status is the
\* Player's whenever the ring to the engine is empty
C21_StatusInStep ==
    /\ [](/\ player.status \in PlaybackStatus
          /\ proc.status \in PlaybackStatus
          /\ Len(to_process) = 0 => proc.status = player.status)
    /\ [][ToggleInverts /\ PauseSends]_vars

\* the engine has taken the last Status message and plays, as the Player does
C21_Witness ==
    /\ step.name = "message"
    /\ step.msg.type = "Status"
    /\ Len(to_process) = 0
    /\ proc.status = "Play"
    /\ player.status = "Play"

\* ------------------------------------------------------------------------
\* properties of the volume keys (specification SpecVolume)
\* ------------------------------------------------------------------------

\* C22: while muted() is true the engine's gain is 0 once it has drained the
\* ring, after any mute, i_vol, d_vol and set_volume calls
C22_MutedIsSilent ==
    (Player_muted(player) /\ Len(to_process) = 0 /\ cb.pc # "panic") => proc.volume = 0

\* mute leaves the stored volume alone
MuteKeeps == Mute => Player_volume(player') = Player_volume(player)

\* mute sends gain 0 when it mutes and the stored volume when it unmutes
MuteSends ==
    Mute => to_process' = Append(to_process,
                                 Volume(IF Player_muted(player) THEN Player_volume(player) ELSE 0))

\* the gain the engine has once it has drained the ring: that of the last
\* Volume message waiting for it, or else the gain it applies
GainBefore ==
    LET last == LastOf(to_process, { "Volume" })
    IN  IF last > 0 THEN to_process[last].value ELSE proc.volume

\* the gain before a mute() that mutes is that of the stored volume, which
\* the mute() that follows it sends again
MuteRestores ==
    (Mute /\ ~ Player_muted(player) /\ cb.pc # "panic")
        => GainBefore = Player_volume(player)

\* volume() changes only in i_vol, d_vol and set_volume and is then the
\* volume that was asked for, clamped, muted or not
VolumeRequested ==
    /\ Player_volume(player') # Player_volume(player) => (IVol \/ DVol \/ SetVolume)
    /\ IVol => \E amt \in Vols :
          Player_volume(player') = IF Player_volume(player) + amt > 100 THEN 100
                                   ELSE Player_volume(player) + amt
    /\ DVol => \E amt \in Vols :
          Player_volume(player') = IF Player_volume(player) < amt THEN 0
                                   ELSE Player_volume(player) - amt
    /\ SetVolume => /\ Player_volume(player') \in 0 .. 100
                    /\ \E vol \in MprisVolumes :
                          Player_volume(player') = MprisPlayer_set_volume(vol)

\* C23: mute() never changes the stored volume; a mute() that mutes finds
\* the engine at the gain volume/100 and the mute() after it, with no volume
\* change between, sends that gain again; volume() is the volume last asked
\* for, clamped, also while muted
C23_MuteKeepsVolume == [][MuteKeeps /\ MuteSends /\ MuteRestores /\ VolumeRequested]_vars

\* C24: every Volume message the Player enqueues carries a gain within
\* 0 ..= 1, the stored volume is within 0 ..= 100, and the engine's assertion
\* on Volume never fails
C24_VolumeInRange ==
    /\ Player_volume(player) \in 0 .. 100
    /\ \A i \in 1 .. Len(to_process) : VolumeAsserted(to_process[i])
    /\ cb.pc # "panic"

\* ------------------------------------------------------------------------
\* properties of a full ring buffer to the engine (specification SpecFull)
\* ------------------------------------------------------------------------

\* C25: no mutator of the Player panics when the ring buffer to the engine
\* is full: the message is dropped and the call returns
C25_FireAndForget == main.pc # "panic"

\* the gain the Player last sent when no send was dropped: mute and
\* Player::state send 0 when muted and the volume otherwise
Effective(pl) == IF Player_muted(pl) THEN 0 ELSE Player_volume(pl)

\* the engine's status or gain is not the Player's
Behind == proc.status # player.status \/ proc.volume # Effective(player)

\* both ring buffers are empty and neither thread is inside a call
Settled ==
    /\ Len(to_process) = 0
    /\ Len(to_main) = 0
    /\ cb.pc = "idle"
    /\ main.pc = "idle"

\* C26: a command that was dropped on a full ring buffer is sent again by the
\* next tick or key, so that the engine has the Player's status and gain once
\* the ring buffers are drained
C26_DroppedIsRetried == Settled => ~ Behind

\* with the ring buffer to the engine empty, no callback and no tick brings a
\* status or gain that is behind up to date, and none enqueues a command,
\* until a key is pressed or the track ends
BehindStays ==
    [][(Behind /\ Len(to_process) = 0 /\ calls' = calls /\ ~ Player_done(player))
          => (Behind' /\ Len(to_process') = 0)]_vars

\* C29: the drain loop of one process() invocation handles at most as many
\* messages as the ring buffer holds, also while the control thread enqueues
C29_DrainBounded == Len(cb.consumed) <= ToProcessCap

\* ------------------------------------------------------------------------
\* properties of a swap of streams (specification SpecStatus)
\* ------------------------------------------------------------------------

\* C27: a stream that a later UseStream replaces is not dropped inside the
\* callback
C27_DroppedOnControl ==
    step.name = "message" => Process_drops(was, step.msg) = Nothing

\* C30: the engine has a resampler exactly when it has a stream whose sample
\* rate is not the device's
C30_ResamplerIffRates ==
    proc.resampler <=> (Len(proc.stream) = 1 /\ proc.stream[1].rate # DeviceRate)

\* a UseStream with a stream at the device's rate replaced a stream at
\* another rate, and the resampler is gone
C30_Witness ==
    /\ step.name = "message"
    /\ step.msg.type = "UseStream"
    /\ Len(was.stream) = 1
    /\ was.stream[1].rate # DeviceRate
    /\ was.resampler
    /\ proc.stream[1].rate = DeviceRate
    /\ ~ proc.resampler

\* ------------------------------------------------------------------------
\* properties of a failing disk stream (specification SpecFaulty)
\* ------------------------------------------------------------------------

\* C28: a read error or a seek error inside the callback does not panic: the
\* callback goes on, and after a read error it has written silence and set
\* done
C28_ErrorsAreSilence ==
    step.path \in { "seek error", "read error" }
        => /\ cb.pc # "panic"
           /\ step.path = "read error" => (Silent(data) /\ proc.done)

\* ------------------------------------------------------------------------
\* properties of loading a track (specification SpecLoad)
\* ------------------------------------------------------------------------

\* the Player after replace_inner(track, status, start) and what it enqueued
LoadedAs(pl, tx, track, status, start) ==
    /\ pl.status = status
    /\ pl.elapsed = start
    /\ ~ pl.done
    /\ Len(tx) > 0
    /\ tx[Len(tx)] = UseStream(ReadDiskStream(track, start), status)

\* a step in which the Queue called Playable::replace and the call returned
Replaces ==
    /\ PlayNext \/ QueueDone
    /\ Len(sent') > 0
    /\ main'.pc # "panic"

\* C31: revive(track, at) loads the track paused at at, replace(track) loads
\* it playing from zero whatever the status was; both clear done and enqueue
\* UseStream with that status
C31_LoadsAsAsked ==
    /\ [][Revive => LoadedAs(player', to_process', q.tracks[q.current + 1], "Paused",
                             State_start(op.arg))]_vars
    /\ [][Replaces => LoadedAs(player', to_process', sent'[Len(sent')], "Play", 0)]_vars

\* a track was replaced while the Player was paused, and it plays from zero
C31_Witness ==
    /\ op.name = "next"
    /\ Len(sent) > 0
    /\ calls = KeyCalls - 1
    /\ main.pc = "idle"
    /\ LoadedAs(player, to_process, sent[Len(sent)], "Play", 0)

\* ------------------------------------------------------------------------
\* more properties of the Queue (specification Spec)
\* ------------------------------------------------------------------------

\* C32: a successful queue(path) replaces path and tracks, leaves current
\* None and the history empty with cursor 0, keeps the shuffle flag and sends
\* nothing; a next() that follows with shuffle off selects index 0
C32_QueueReplaces ==
    (op.name = "queue" /\ op.result = "ok") =>
        /\ q.path = op.arg
        /\ q.tracks = WalkDir(op.arg)
        /\ q.current = None
        /\ q.history = [ queue |-> << >>, index |-> 0 ]
        /\ q.shuffle = pre.shuffle
        /\ sent = << >>
        /\ (~ q.shuffle /\ Len(q.tracks) > 0) =>
              LET following == Queue_next(q, None)
              IN  /\ following.result = "ok"
                  /\ following.q.current = 0
                  /\ following.sent = << q.tracks[1] >>

\* another directory was queued while a track was current and the history
\* held entries
C32_Witness ==
    /\ op.name = "queue" /\ op.result = "ok"
    /\ pre.current # None
    /\ Len(pre.history.queue) > 0
    /\ pre.tracks # q.tracks
    /\ Len(q.tracks) > 1
    /\ ~ q.shuffle

\* the last call toggled shuffle: shuffle(), or set_shuffle() with the other
\* flag
ShuffleToggled ==
    \/ op.name = "shuffle"
    \/ op.name = "set_shuffle" /\ (op.arg = 1) # pre.shuffle

\* C33: toggling shuffle inverts the flag and empties the history (cursor 0),
\* leaves path, tracks and current alone and sends nothing; the next() and
\* last() that follow do not replay the history
C33_ToggleClearsHistory ==
    ShuffleToggled =>
        /\ q.shuffle = ~ pre.shuffle
        /\ q.history = [ queue |-> << >>, index |-> 0 ]
        /\ q.path = pre.path
        /\ q.tracks = pre.tracks
        /\ q.current = pre.current
        /\ sent = << >>
        /\ Queue_last(q).via # "history"
        /\ \A draw \in (IF UsesRandom(q) THEN ShuffleDraws(q) ELSE { None }) :
              Queue_next(q, draw).via # "history"

\* shuffle was toggled while a track was current and the history had an
\* entry behind and an entry ahead of the cursor
C33_Witness ==
    /\ ShuffleToggled
    /\ pre.current # None
    /\ Len(pre.history.queue) > 1
    /\ pre.history.index > 0
    /\ pre.history.index + 1 < Len(pre.history.queue)

\* ------------------------------------------------------------------------
\* properties of the restored Queue (specification SpecRestore)
\* ------------------------------------------------------------------------

\* with_state has returned a Queue that agrees with the persisted State
Consistent ==
    LET state == op.arg
        found == state.queue # None /\ Exists(state.queue)
        listed == { i \in 0 .. Len(q.tracks) - 1 : q.tracks[i + 1] = state.track }
    IN  /\ op.result = "ok"
        /\ ~ found => (q.path = None /\ q.tracks = << >> /\ q.current = None)
        /\ found => (q.path = state.queue /\ q.tracks = WalkDir(state.queue))
        /\ q.current # None <=> (state.track # None /\ listed # {})
        /\ q.current # None => q.current \in listed
        /\ q.history = IF q.current # None
                       THEN [ queue |-> << q.current >>, index |-> 0 ]
                       ELSE [ queue |-> << >>, index |-> 0 ]
        /\ q.shuffle = state.shuffle

\* C34: with_state on a persisted State restores a Queue: without an
\* existing queue path, path is None, tracks is empty and current is None;
\* otherwise path and tracks are the directory's and current is the index of
\* the persisted track, None when there is none or it is not in the list;
\* the history holds exactly the current index, or nothing; shuffle is the
\* persisted flag
C34_Restored == op.name = "with_state" => Consistent

\* ------------------------------------------------------------------------
\* properties of the order of Tracks (specification SpecOrder)
\* ------------------------------------------------------------------------

\* the keys of the comparison, in its order
Keys == << "track", "title", "artist", "album" >>

\* the value of a key as it is compared: a number, or a string without its
\* case
Folded(key, value) == IF key = "track" THEN value ELSE value \div 2

\* the keys present on both Tracks with different values
Decisive(a, b) ==
    { k \in 1 .. 4 : /\ a[Keys[k]] # -1
                     /\ b[Keys[k]] # -1
                     /\ Folded(Keys[k], a[Keys[k]]) # Folded(Keys[k], b[Keys[k]]) }

\* the Ordering decided by the first decisive key, Equal without one
Decided(a, b) ==
    IF Decisive(a, b) = {} THEN "Equal"
    ELSE LET k == CHOOSE k \in Decisive(a, b) : \A j \in Decisive(a, b) : k <= j
         IN  IF Folded(Keys[k], a[Keys[k]]) < Folded(Keys[k], b[Keys[k]])
             THEN "Less" ELSE "Greater"

\* C35: Track::cmp is decided by the first of track number, title, artist,
\* album that both Tracks have and that differs without regard to case; it is
\* Equal when there is none
C35_FirstDecisiveKey ==
    ord.name = "cmp" => ord.ret[1] = Decided(ord.tracks[1], ord.tracks[2])

\* titles that differ only in case fall through to the artist, which decides
C35_Witness ==
    /\ ord.name = "cmp"
    /\ ord.tracks[1].track = -1
    /\ ord.tracks[1].title = 0
    /\ ord.tracks[2].title = 1
    /\ ord.tracks[1].artist = 3
    /\ ord.tracks[2].artist = 0
    /\ ord.ret[1] = "Greater"

\* a is not after b
NotAfter(ordering) == ordering \in { "Less", "Equal" }

\* C39: Track::cmp is a total preorder: cmp(a, b) is the reverse of
\* cmp(b, a), and it is transitive, for <= and for ==
C39_TotalPreorder ==
    /\ ord.name = "cmp" => ord.ret[2] = Reverse(ord.ret[1])
    /\ ord.name = "three" =>
          /\ (NotAfter(ord.ret[1]) /\ NotAfter(ord.ret[2])) => NotAfter(ord.ret[3])
          /\ (ord.ret[1] = "Equal" /\ ord.ret[2] = "Equal") => ord.ret[3] = "Equal"
\* the engine has come to the end of the stream the Player last loaded: no
\* UseStream is on its way to it
Ended == proc.done /\ ~ Swapping(to_process)

\* Queue::done has advanced the queue in this step
Advances == QueueDone /\ Len(sent') > 0

\* C36: one end of a stream causes one advance of the queue: Player::done()
\* is true only when the engine has ended the stream the Player last
\* loaded, an IsDone of a stream since replaced does not set it, and
\* Queue::done advances only past a stream that has ended
C36_OneAdvancePerEnd ==
    /\ [](Player_done(player) => Ended)
    /\ [][Advances => Ended]_vars

\* last() is called right after a next() that was called with shuffle on
\* and a current track
LastAfterShuffledNext ==
    /\ Last
    /\ op.name = "next"
    /\ op.result = "ok"
    /\ pre.shuffle
    /\ pre.current # None

\* C37: with shuffle on and a track X playing, next() followed
\* immediately by last() makes X the current track again
C37_NextThenLast == [][LastAfterShuffledNext => q'.current = pre.current]_vars

\* the step calls History::push: next_track took the shuffle rule
Pushes == Alive /\ op'.via = "shuffle" /\ op'.name \in { "next", "seek_i" }

\* the history holds entries after its cursor
Forward(h) == h.index + 1 < Len(h.queue)

\* no two adjacent entries of the history are equal
NoRepeat(h) == \A i \in 1 .. Len(h.queue) - 1 : h.queue[i] # h.queue[i + 1]

\* C38: History::push is called only with the cursor on the last entry or
\* on an empty history, so that its debug assertion holds and no entry
\* lies after the cursor; the history never holds two equal adjacent
\* entries
C38_PushAtEnd ==
    /\ [](Alive => NoRepeat(q.history))
    /\ [][Pushes => PushAssertion(q.history) /\ ~ Forward(q.history)]_vars

\* a push has changed a history that held entries and has left the cursor
\* on the last one
C38_Witness ==
    /\ op.name = "next"
    /\ op.via = "shuffle"
    /\ Len(pre.history.queue) >= 1
    /\ q.history.queue # pre.history.queue
    /\ q.history.index = Len(q.history.queue) - 1

\* the messages that move the position of the stream
Moves == { "SeekTo", "UseStream" }

\* the last step of the audio callback handled a SeekTo or a UseStream
Moved == step.name = "message" /\ step.msg.type \in Moves

\* the last step of the audio callback reported a position
ReportedPlayhead == \E i \in 1 .. Len(step.reports) : step.reports[i].type = "Playhead"

\* the step changes the position the Player reports
Repositions == player'.elapsed # player.elapsed

\* the Player takes a Playhead report of the engine, or Player::replace or
\* Player::revive sets the position the new stream starts at
Follows ==
    \/ UpdatePop /\ Head(to_main).type = "Playhead"
    \/ (PlayNext \/ QueueDone) /\ Len(sent') > 0
    \/ Revive

\* C40: the rendering part of a paused engine reads nothing, takes nothing
\* from the buffer and reports nothing; stream and buffer of a paused
\* engine change only by a SeekTo or a UseStream message, so that playing
\* resumes where it was paused; a Playhead is reported only by a callback
\* that plays and by SeekTo and UseStream, and the position the Player
\* reports changes only by such a report or by the replace() or revive()
\* that sends the UseStream
C40_PausedKeepsPosition ==
    /\ []((step.name = "render" /\ was.status = "Paused") =>
             (proc = was /\ step.reports = << >> /\ step.path # "audio"))
    /\ []((was.status = "Paused" /\ (proc.stream # was.stream \/ proc.buffer # was.buffer))
             => Moved)
    /\ [](ReportedPlayhead => (step.path = "audio" \/ Moved))
    /\ [][Repositions => Follows]_vars

\* a callback of a paused engine has rendered silence with samples left
\* in the buffer of a stream that has been played
C40_Witness ==
    /\ step.name = "render"
    /\ step.path = "paused"
    /\ Len(was.buffer) > 0
    /\ was.stream[1].playhead > 0
    /\ Silent(data)

====
